---- MODULE Spec2Model ----
(***************************************************************************)
(* A model of the VFS core of sratoolkit: the VPath parser and serializer  *)
(* of libs/vfs/path.c.                                                     *)
(*                                                                         *)
(* Text is a sequence of one-character strings.  C offsets are 0-based:    *)
(* uri [ k ] is uri[k+1] here, and the String made by                      *)
(* StringInit ( & uri [ start ], end - start ) is SubSeq(uri, start+1, end).*)
(* The len (character count) of a String is not modelled, only its bytes.  *)
(***************************************************************************)
EXTENDS Integers, Sequences, FiniteSets, TLC

\* ------------------------------------------------------------------------
\* characters (ctype.h)

LOWER == <<"a","b","c","d","e","f","g","h","i","j","k","l","m",
           "n","o","p","q","r","s","t","u","v","w","x","y","z">>
UPPER == <<"A","B","C","D","E","F","G","H","I","J","K","L","M",
           "N","O","P","Q","R","S","T","U","V","W","X","Y","Z">>
DIGITS == <<"0","1","2","3","4","5","6","7","8","9">>

Range(s) == { s[k] : k \in DOMAIN s }
IndexOf(s, c) == CHOOSE k \in DOMAIN s : s[k] = c

\* a decoded code point >= 128 (one symbol stands for the whole UTF-8 sequence)
NonAscii == { "U+00E9" }
\* a byte sequence utf8_utf32 rejects (returns < 0), and one that ends early (returns 0)
BadUtf8 == "0xFF"
ShortUtf8 == "0xC3"

islower(c) == c \in Range(LOWER)
isupper(c) == c \in Range(UPPER)
isalpha(c) == islower(c) \/ isupper(c)
isdigit(c) == c \in Range(DIGITS)
isalnum(c) == isalpha(c) \/ isdigit(c)
isxdigit(c) == isdigit(c) \/ c \in {"a","b","c","d","e","f","A","B","C","D","E","F"}
tolower(c) == IF isupper(c) THEN LOWER[IndexOf(UPPER, c)] ELSE c
toupper(c) == IF islower(c) THEN UPPER[IndexOf(LOWER, c)] ELSE c
\* ch - '0'
DigitVal(c) == IndexOf(DIGITS, c) - 1
\* toupper ( ch ) - 'A' + 10
HexVal(c) == IndexOf(UPPER, toupper(c)) - 1 + 10

\* strcase_cmp ( a, n, b, n, n ): 0 when the two texts agree up to letter case
strcase_cmp(a, b) ==
    IF Len(a) = Len(b) /\ \A k \in DOMAIN a : tolower(a[k]) = tolower(b[k]) THEN 0 ELSE 1

\* ------------------------------------------------------------------------
\* unsigned arithmetic

RECURSIVE BitOr(_, _)
BitOr(a, b) ==
    IF a = 0 THEN b
    ELSE IF b = 0 THEN a
    ELSE (IF a % 2 = 1 \/ b % 2 = 1 THEN 1 ELSE 0) + 2 * BitOr(a \div 2, b \div 2)

Shl(a, n) == a * 2^n

\* a uint64 as four 16-bit limbs, least significant first
Limb == 2^16
U64Zero == <<0, 0, 0, 0>>
U64FromDigit(d) == <<d, 0, 0, 0>>
\* oid *= 10; oid += d, in 64 bits
U64Mul10Add(v, d) ==
    LET t0 == v[1] * 10 + d
        t1 == v[2] * 10 + t0 \div Limb
        t2 == v[3] * 10 + t1 \div Limb
        t3 == v[4] * 10 + t2 \div Limb
    IN  <<t0 % Limb, t1 % Limb, t2 % Limb, t3 % Limb>>
\* oid > 0xFFFFFFFF
U64Above32(v) == v[3] # 0 \/ v[4] # 0
\* ( uint32_t ) oid, as two limbs
U32Of(v) == <<v[1], v[2]>>

\* printf "%u" of a small unsigned value
RECURSIVE DecDigits(_)
DecDigits(n) == IF n < 10 THEN <<DIGITS[n + 1]>> ELSE DecDigits(n \div 10) \o <<DIGITS[(n % 10) + 1]>>

\* printf "%u" of a 32-bit value held as two limbs
RECURSIVE U32Dec(_)
U32Dec(v) ==
    LET qh == v[2] \div 10
        t  == (v[2] % 10) * Limb + v[1]
        q  == <<t \div 10, qh>>
        r  == t % 10
    IN  IF q = <<0, 0>> THEN <<DIGITS[r + 1]>> ELSE U32Dec(q) \o <<DIGITS[r + 1]>>

\* ------------------------------------------------------------------------
\* return codes: ( object, state ) of RC ( rcVFS, rcPath, ctx, object, state )

RC(obj, st) == [obj |-> obj, state |-> st]
rcOK == RC("rcNoObj", "rcNoErr")
\* what an uninitialized rc_t holds when it is not 0
rcJunk == RC("indeterminate", "indeterminate")

\* ------------------------------------------------------------------------
\* VPath

NULL == [null |-> TRUE]

\* calloc ( 1, sizeof * path )
VPathZero ==
    [ from_uri |-> FALSE, scheme_type |-> "vpuri_none", scheme |-> <<>>,
      auth |-> <<>>, host |-> <<>>, portname |-> <<>>, portnum |-> 0,
      missing_port |-> FALSE, host_type |-> "vhDNSName",
      ipv4 |-> <<0, 0>>, ipv6 |-> <<0, 0, 0, 0, 0, 0, 0, 0>>,
      path |-> <<>>, path_type |-> "vpInvalid", query |-> <<>>, fragment |-> <<>>,
      obj_id |-> <<0, 0>>, acc_code |-> 0 ]

MAX_ACCESSION_LEN == 20

S_ftp == <<"f","t","p">>
S_file == <<"f","i","l","e">>
S_fasp == <<"f","a","s","p">>
S_http == <<"h","t","t","p">>
S_ncbi == <<"n","c","b","i","-">>
S_acc == <<"a","c","c">>
S_obj == <<"o","b","j">>
S_xncbi == <<"x","-","n","c","b","i","-">>
S_legrefseq == <<"l","e","g","r","e","f","s","e","q">>
S_ncbi_acc == S_ncbi \o S_acc
S_ncbi_obj == S_ncbi \o S_obj
S_ncbi_file == S_ncbi \o S_file
S_x_ncbi_legrefseq == S_xncbi \o S_legrefseq

Sub(s, from, n) == SubSeq(s, from + 1, from + n)

VPathCaptureScheme(self, uri, start, end) ==
    LET size == end - start
        scheme == SubSeq(uri, start + 1, end)
        type ==
            CASE size = 3 ->
                    IF strcase_cmp(Sub(scheme, 0, 3), S_ftp) = 0 THEN "vpuri_ftp"
                    ELSE "vpuri_not_supported"
              [] size = 4 ->
                    IF uri[1] \in {"f", "F"} THEN
                        IF strcase_cmp(Sub(scheme, 1, 3), Sub(S_file, 1, 3)) = 0 THEN "vpuri_file"
                        ELSE IF strcase_cmp(Sub(scheme, 1, 3), Sub(S_fasp, 1, 3)) = 0 THEN "vpuri_fasp"
                        ELSE "vpuri_not_supported"
                    ELSE IF uri[1] \in {"h", "H"} THEN
                        IF strcase_cmp(Sub(scheme, 1, 3), Sub(S_http, 1, 3)) = 0 THEN "vpuri_http"
                        ELSE "vpuri_not_supported"
                    ELSE "vpuri_not_supported"
              [] size = 8 ->
                    IF strcase_cmp(Sub(scheme, 0, 5), S_ncbi) # 0 THEN "vpuri_not_supported"
                    ELSE IF uri[6] \in {"a", "A"} THEN
                        IF strcase_cmp(Sub(scheme, 6, 2), Sub(S_acc, 1, 2)) = 0 THEN "vpuri_ncbi_acc"
                        ELSE "vpuri_not_supported"
                    ELSE IF uri[6] \in {"o", "O"} THEN
                        IF strcase_cmp(Sub(scheme, 6, 2), Sub(S_obj, 1, 2)) = 0 THEN "vpuri_ncbi_obj"
                        ELSE "vpuri_not_supported"
                    ELSE "vpuri_not_supported"
              [] size = 9 ->
                    IF strcase_cmp(Sub(scheme, 0, 5), S_ncbi) # 0 THEN "vpuri_not_supported"
                    ELSE IF uri[6] \in {"f", "F"} THEN
                        IF strcase_cmp(Sub(scheme, 6, 3), Sub(S_file, 1, 3)) = 0 THEN "vpuri_ncbi_file"
                        ELSE "vpuri_not_supported"
                    ELSE "vpuri_not_supported"
              [] size = 16 ->
                    IF strcase_cmp(Sub(scheme, 0, 7), S_xncbi) # 0 THEN "vpuri_not_supported"
                    ELSE IF uri[8] \in {"l", "L"} THEN
                        IF strcase_cmp(Sub(scheme, 8, 8), Sub(S_legrefseq, 1, 8)) = 0
                        THEN "vpuri_ncbi_legrefseq"
                        ELSE "vpuri_not_supported"
                    ELSE "vpuri_not_supported"
              [] OTHER -> "vpuri_not_supported"
    IN  [self EXCEPT !.scheme = scheme, !.from_uri = TRUE,
                     !.scheme_type = IF size # 0 THEN type ELSE @]

VPathCaptureAccession(self, uri, start, end) ==
    LET size == end - start
    IN  [self EXCEPT !.path = SubSeq(uri, start + 1, end),
                     !.path_type =
                        CASE self.scheme_type = "vpuri_none" -> "vpNameOrAccession"
                          [] self.scheme_type = "vpuri_ncbi_acc" /\ size < MAX_ACCESSION_LEN -> "vpAccession"
                          [] OTHER -> "vpName"]

\* the hexadecimal number 0xabc
Hex3(a, b, c) == a * 256 + b * 16 + c

\* the table with the sra shapes upgraded as well
AccessionShapes_sra ==
    { Hex3(0, 1, 5), Hex3(0, 2, 6), Hex3(1, 0, 6), Hex3(1, 2, 6), Hex3(1, 0, 9),
      Hex3(0, 3, 6), Hex3(0, 3, 7), Hex3(0, 3, 8), Hex3(0, 3, 9),
      Hex3(0, 4, 2), Hex3(0, 4, 8), Hex3(0, 4, 9), Hex3(1, 4, 2), Hex3(1, 4, 8), Hex3(1, 4, 9) }

\* the table without the wgs shapes that have no prefix
AccessionShapes_prefixed ==
    { Hex3(0, 1, 5), Hex3(0, 2, 6), Hex3(1, 0, 6), Hex3(1, 2, 6), Hex3(1, 0, 9),
      Hex3(1, 4, 2), Hex3(1, 4, 8), Hex3(1, 4, 9) }

\* the shapes ( acc_code >> 8 ) the decision table upgrades to vpAccession
AccessionShapes ==
    { Hex3(0, 1, 5), Hex3(0, 2, 6), Hex3(1, 0, 6), Hex3(1, 2, 6),   \* refseq
      Hex3(1, 0, 9),                                                \* refseq or named annotation
      Hex3(0, 4, 2), Hex3(0, 4, 8), Hex3(0, 4, 9),                  \* wgs
      Hex3(1, 4, 2), Hex3(1, 4, 8), Hex3(1, 4, 9) }                 \* wgs

\* 0x02910
AccCodeNA == 2 * 4096 + 9 * 256 + 1 * 16

VPathCaptureAccCode(self, acc_prefix, acc_alpha, acc_digit, acc_ext, acc_suffix) ==
    LET code == BitOr(Shl(acc_prefix, 16),
                  BitOr(Shl(acc_alpha, 12),
                    BitOr(Shl(acc_digit, 8),
                      BitOr(Shl(acc_ext, 4), Shl(acc_suffix, 0)))))
        upgrade ==
            \/ (code \div 256) \in AccessionShapes
            \/ /\ (code \div 256) = 2 * 16 + 9
               /\ code = AccCodeNA
               /\ self.path[1] = "N"
               /\ self.path[2] = "A"
    IN  [self EXCEPT !.acc_code = code,
                     !.path_type = IF @ = "vpNameOrAccession" /\ upgrade THEN "vpAccession" ELSE @]

VPathCaptureOid(self, oid, uri, start, oid_start, end) ==
    LET oid_size == end - oid_start
    IN  IF oid = U64Zero \/ oid_size > 10 \/ U64Above32(oid)
        THEN [self EXCEPT !.path_type = "vpName", !.path = SubSeq(uri, start + 1, end)]
        ELSE IF self.scheme_type = "vpuri_ncbi_obj"
        THEN [self EXCEPT !.obj_id = U32Of(oid),
                          !.path = SubSeq(uri, oid_start + 1, end),
                          !.path_type = "vpOID"]
        ELSE [self EXCEPT !.obj_id = U32Of(oid),
                          !.path_type = "vpNameOrOID",
                          !.path = SubSeq(uri, start + 1, end)]

VPathCaptureAuth(self, uri, start, end) ==
    [self EXCEPT !.auth = SubSeq(uri, start + 1, end), !.path_type = "vpAuth"]

VPathCaptureHostName(self, uri, start, end) ==
    [self EXCEPT !.host = SubSeq(uri, start + 1, end), !.path_type = "vpHostName"]

\* ( ipv4 [ 0 ] << 24 ) | ( ipv4 [ 1 ] << 16 ) | ( ipv4 [ 2 ] << 8 ) | ipv4 [ 3 ]:
\* a uint32 as two 16-bit limbs, least significant first
IPv4Pack(ipv4) ==
    <<BitOr(Shl(ipv4[3], 8), ipv4[4]), BitOr(Shl(ipv4[1], 8), ipv4[2])>>

\* ( self -> ipv4 >> shift ) & 0xFF, shift one of 24, 16, 8, 0
IPv4Octet(v, shift) ==
    LET limb == IF shift >= 16 THEN v[2] ELSE v[1]
    IN  (limb \div 2^(shift % 16)) % 256

\* the results of the capture functions that can fail: [rc, self]
VPathCaptureIPv4(self, ipv4) ==
    IF \E k \in 1..4 : ipv4[k] >= 256
    THEN [rc |-> RC("rcData", "rcExcessive"), self |-> self]
    ELSE [rc |-> rcOK,
          self |-> [self EXCEPT !.ipv4 = IPv4Pack(ipv4), !.path_type = "vpEndpoint",
                                !.host_type = "vhIPv4"]]

\* the loop stores the groups before the first excessive one
VPathCaptureIPv6(self, ipv6) ==
    IF \E k \in 1..8 : ipv6[k] >= 65536
    THEN LET bad == CHOOSE k \in 1..8 : ipv6[k] >= 65536 /\ \A j \in 1..(k - 1) : ipv6[j] < 65536
         IN  [rc |-> RC("rcData", "rcExcessive"),
              self |-> [self EXCEPT !.ipv6 = [j \in 1..8 |-> IF j < bad THEN ipv6[j] ELSE @[j]]]]
    ELSE [rc |-> rcOK,
          self |-> [self EXCEPT !.ipv6 = ipv6, !.path_type = "vpEndpoint", !.host_type = "vhIPv6"]]

VPathCapturePortName(self, uri, start, end) ==
    [self EXCEPT !.portname = SubSeq(uri, start + 1, end), !.path_type = "vpEndpoint"]

VPathCapturePortNum(self, port) ==
    IF port >= 65536
    THEN [rc |-> RC("rcData", "rcExcessive"), self |-> self]
    ELSE [rc |-> rcOK, self |-> [self EXCEPT !.portnum = port, !.path_type = "vpEndpoint"]]

VPathCapturePath(self, uri, start, end, var) ==
    [self EXCEPT !.path = SubSeq(uri, start + 1, end), !.path_type = var]

\* the query captured without its '?'
VPathCaptureQuery_noqmark(self, uri, start, end) ==
    [self EXCEPT !.query = SubSeq(uri, start + 2, end)]

VPathCaptureQuery(self, uri, start, end) ==
    [self EXCEPT !.query = SubSeq(uri, start + 1, end)]

\* VPathCaptureFragment leaving the '#' out
VPathCaptureFragment_nohash(self, uri, start, end) ==
    [self EXCEPT !.fragment = SubSeq(uri, start + 2, end)]

VPathCaptureFragment(self, uri, start, end) ==
    [self EXCEPT !.fragment = SubSeq(uri, start + 1, end)]

\* ------------------------------------------------------------------------
\* VPathParse: the locals of the function, and one operator per parser state

Unexpected == RC("rcChar", "rcUnexpected")
Insufficient == RC("rcData", "rcInsufficient")

\* the locals at entry; rc is uninitialized and holds "junk" (rcOK or rcJunk).
\* ip, ipv4, ipv6, oid, oid_anchor and port are uninitialized too, but every
\* path through the function writes them before it reads them.
ParseLocals(junk) ==
    [ state |-> "vppStart", anchor |-> 0,
      acc_prefix |-> 0, acc_alpha |-> 0, acc_digit |-> 0, acc_ext |-> 0, acc_suffix |-> 0,
      ip |-> 0, ipv4 |-> <<0, 0, 0, 0>>, ipv6 |-> <<0, 0, 0, 0, 0, 0, 0, 0>>,
      oid |-> U64Zero, oid_anchor |-> 0, port |-> 0, rc |-> junk,
      self |-> VPathZero, done |-> FALSE, ret |-> rcOK ]

Return(ps, rc) == [ps EXCEPT !.done = TRUE, !.ret = rc]
Goto(ps, st) == [ps EXCEPT !.state = st]
\* VPathParseResetAnchor ( i )
VPathParseResetAnchor(ps, i) == [ps EXCEPT !.anchor = i]

ZeroAlpha(ps) == [ps EXCEPT !.acc_alpha = 0]
ZeroPA(ps) == [ps EXCEPT !.acc_prefix = 0, !.acc_alpha = 0]
ZeroPAD(ps) == [ps EXCEPT !.acc_prefix = 0, !.acc_alpha = 0, !.acc_digit = 0]
ZeroPADE(ps) == [ps EXCEPT !.acc_prefix = 0, !.acc_alpha = 0, !.acc_digit = 0, !.acc_ext = 0]
ZeroPADES(ps) ==
    [ps EXCEPT !.acc_prefix = 0, !.acc_alpha = 0, !.acc_digit = 0, !.acc_ext = 0, !.acc_suffix = 0]

\* VPathCaptureAccession followed by VPathCaptureAccCode
CaptureAcc(ps, uri, i) ==
    [ps EXCEPT !.self = VPathCaptureAccCode(VPathCaptureAccession(ps.self, uri, ps.anchor, i),
                            ps.acc_prefix, ps.acc_alpha, ps.acc_digit, ps.acc_ext, ps.acc_suffix)]
CapturePath(ps, uri, i, var) ==
    [ps EXCEPT !.self = VPathCapturePath(ps.self, uri, ps.anchor, i, var)]
CaptureOid(ps, uri, i) ==
    [ps EXCEPT !.self = VPathCaptureOid(ps.self, ps.oid, uri, ps.anchor, ps.oid_anchor, i)]
CaptureQuery(ps, uri, i) ==
    [ps EXCEPT !.self = VPathCaptureQuery(ps.self, uri, ps.anchor, i)]
CaptureScheme(ps, uri, i) ==
    [ps EXCEPT !.self = VPathCaptureScheme(ps.self, uri, ps.anchor, i)]
CaptureHostName(ps, uri, i) ==
    [ps EXCEPT !.self = VPathCaptureHostName(ps.self, uri, ps.anchor, i)]

\* state = vppParamName / vppFragment; VPathParseResetAnchor ( i )
ToParam(ps, i) == VPathParseResetAnchor(Goto(ps, "vppParamName"), i)
ToFragment(ps, i) == VPathParseResetAnchor(Goto(ps, "vppFragment"), i)

vppStart(ps, ch, uri, i) ==
    IF ch \in NonAscii THEN Goto(ps, "vppNamePath")
    ELSE IF isalpha(ch) THEN [ps EXCEPT !.acc_alpha = 1, !.state = "vppAccPrefixAlphaNamePathOrScheme"]
    ELSE IF isdigit(ch) THEN Goto(ps, "vppNamePath")
    ELSE IF ch = "/" THEN Goto(ps, "vppFullOrUNCPath")
    ELSE IF ch \in {":", "?", "#"} THEN Return(ps, Unexpected)
    ELSE Goto(ps, "vppNamePath")

vppAccPrefixAlphaNamePathOrScheme(ps, ch, uri, i) ==
    IF ch \in NonAscii THEN Goto(ZeroAlpha(ps), "vppNamePath")
    ELSE IF isalpha(ch) THEN [ps EXCEPT !.acc_alpha = @ + 1]
    ELSE IF isdigit(ch) THEN [ps EXCEPT !.acc_digit = @ + 1, !.state = "vppAccDigitNamePathOrScheme"]
    ELSE IF ch = "/" THEN Goto(ZeroAlpha(ps), "vppRelPath")
    ELSE IF ch = "_" THEN [ps EXCEPT !.acc_prefix = 1, !.state = "vppAccAlphaNamePath", !.acc_alpha = 0]
    ELSE IF ch \in {".", "+", "-"} THEN Goto(ZeroAlpha(ps), "vppNamePathOrScheme")
    ELSE IF ch = ":" THEN Goto(CaptureScheme(ZeroAlpha(ps), uri, i), "vppAccOidRelOrSlash")
    ELSE IF ch \in {"?", "#"} THEN Return(ps, Unexpected)
    ELSE Goto(ZeroAlpha(ps), "vppNamePath")

vppAccAlphaNamePath(ps, ch, uri, i) ==
    IF ch \in NonAscii THEN Goto(ZeroPA(ps), "vppNamePath")
    ELSE IF isalpha(ch) THEN [ps EXCEPT !.acc_alpha = @ + 1]
    ELSE IF isdigit(ch) THEN [ps EXCEPT !.acc_digit = @ + 1, !.state = "vppAccDigitNamePath"]
    ELSE IF ch = "/" THEN Goto(ZeroPA(ps), "vppRelPath")
    ELSE IF ch \in {":", "?", "#"} THEN Return(ps, Unexpected)
    ELSE Goto(ZeroPA(ps), "vppNamePath")

vppAccDigitNamePathOrScheme(ps, ch, uri, i) ==
    IF ch \in NonAscii THEN Goto(ZeroPAD(ps), "vppNamePath")
    ELSE IF isalpha(ch) THEN Goto(ZeroPAD(ps), "vppNamePathOrScheme")
    ELSE IF isdigit(ch) THEN [ps EXCEPT !.acc_digit = @ + 1]
    ELSE IF ch = "/" THEN Goto(ZeroPAD(ps), "vppRelPath")
    ELSE IF ch = "." THEN Goto(ps, "vppAccDotNamePathOrScheme")
    ELSE IF ch \in {"+", "-"} THEN Goto(ZeroPAD(ps), "vppNamePathOrScheme")
    ELSE IF ch = ":" THEN Goto(CaptureScheme(ZeroPAD(ps), uri, i), "vppAccOidRelOrSlash")
    ELSE IF ch \in {"?", "#"} THEN Return(ps, Unexpected)
    ELSE Goto(ZeroPAD(ps), "vppNamePath")

vppAccDigitNamePath(ps, ch, uri, i) ==
    IF ch \in NonAscii \/ isalpha(ch) THEN Goto(ZeroPAD(ps), "vppNamePath")
    ELSE IF isdigit(ch) THEN [ps EXCEPT !.acc_digit = @ + 1]
    ELSE IF ch = "/" THEN Goto(ZeroPAD(ps), "vppRelPath")
    ELSE IF ch = "." THEN Goto(ps, "vppAccDotNamePath")
    ELSE IF ch \in {":", "?", "#"} THEN Return(ps, Unexpected)
    ELSE Goto(ZeroPAD(ps), "vppNamePath")

vppAccExtNamePathOrScheme(ps, ch, uri, i) ==
    IF ch \in NonAscii THEN Goto(ZeroPADE(ps), "vppNamePath")
    ELSE IF isalpha(ch) THEN Goto(ZeroPADE(ps), "vppNamePathOrScheme")
    ELSE IF isdigit(ch) THEN ps
    ELSE IF ch = "/" THEN Goto(ZeroPADE(ps), "vppRelPath")
    ELSE IF ch = "." THEN Goto(ps, "vppAccDotNamePathOrScheme")
    ELSE IF ch \in {"+", "-"} THEN Goto(ZeroPADE(ps), "vppNamePathOrScheme")
    ELSE IF ch = ":" THEN Goto(CaptureScheme(ZeroPADE(ps), uri, i), "vppAccOidRelOrSlash")
    ELSE IF ch \in {"?", "#"} THEN Return(ps, Unexpected)
    ELSE IF ch = "_" /\ ps.acc_prefix # 0 /\ ps.acc_alpha = 0 /\ ps.acc_digit = 9
        THEN Goto(ps, "vppAccUnderNamePath")
    ELSE Goto(ZeroPADE(ps), "vppNamePath")

vppAccExtNamePath(ps, ch, uri, i) ==
    IF ch \in NonAscii \/ isalpha(ch) THEN Goto(ZeroPADE(ps), "vppNamePath")
    ELSE IF isdigit(ch) THEN ps
    ELSE IF ch = "/" THEN Goto(ZeroPADE(ps), "vppRelPath")
    ELSE IF ch = "." THEN Goto(ps, "vppAccDotNamePath")
    ELSE IF ch \in {":", "?", "#"} THEN Return(ps, Unexpected)
    ELSE IF ch = "_" /\ ps.acc_prefix # 0 /\ ps.acc_alpha = 0 /\ ps.acc_digit = 9 /\ ps.acc_ext = 1
        THEN Goto(ps, "vppAccUnderNamePath")
    ELSE Goto(ZeroPADE(ps), "vppNamePath")

vppAccSuffixNamePath(ps, ch, uri, i) ==
    IF ch \in NonAscii \/ isdigit(ch) THEN Goto(ZeroPADES(ps), "vppNamePath")
    ELSE IF isalpha(ch) THEN ps
    ELSE IF ch = "/" THEN Goto(ZeroPADES(ps), "vppRelPath")
    ELSE IF ch \in {":", "?", "#"} THEN Return(ps, Unexpected)
    ELSE Goto(ZeroPADES(ps), "vppNamePath")

vppAccDotNamePathOrScheme(ps, ch, uri, i) ==
    IF ch \in NonAscii THEN Goto(ZeroPADE(ps), "vppNamePath")
    ELSE IF isalpha(ch) THEN Goto(ZeroPADE(ps), "vppNamePathOrScheme")
    ELSE IF isdigit(ch) THEN [ps EXCEPT !.acc_ext = @ + 1, !.state = "vppAccExtNamePathOrScheme"]
    ELSE IF ch = "/" THEN Goto(ZeroPADE(ps), "vppRelPath")
    ELSE IF ch \in {".", "+", "-"} THEN Goto(ZeroPADE(ps), "vppNamePathOrScheme")
    ELSE IF ch = ":" THEN Goto(CaptureScheme(ZeroPADE(ps), uri, i), "vppAccOidRelOrSlash")
    ELSE IF ch \in {"?", "#"} THEN Return(ps, Unexpected)
    ELSE Goto(ZeroPADE(ps), "vppNamePath")

vppAccDotNamePath(ps, ch, uri, i) ==
    IF ch \in NonAscii \/ isalpha(ch) THEN Goto(ZeroPADE(ps), "vppNamePath")
    ELSE IF isdigit(ch) THEN [ps EXCEPT !.acc_ext = @ + 1, !.state = "vppAccExtNamePath"]
    ELSE IF ch = "/" THEN Goto(ZeroPADE(ps), "vppRelPath")
    ELSE IF ch \in {":", "?", "#"} THEN Return(ps, Unexpected)
    ELSE Goto(ZeroPADE(ps), "vppNamePath")

vppAccUnderNamePath(ps, ch, uri, i) ==
    IF ch \in NonAscii \/ isdigit(ch) THEN Goto(ZeroPADE(ps), "vppNamePath")
    ELSE IF isalpha(ch) THEN [ps EXCEPT !.acc_suffix = @ + 1, !.state = "vppAccSuffixNamePath"]
    ELSE IF ch = "/" THEN Goto(ZeroPADE(ps), "vppRelPath")
    ELSE IF ch \in {":", "?", "#"} THEN Return(ps, Unexpected)
    ELSE Goto(ZeroPADE(ps), "vppNamePath")

vppNamePathOrScheme(ps, ch, uri, i) ==
    IF ch \in NonAscii THEN Goto(ps, "vppNamePath")
    ELSE IF isalnum(ch) THEN ps
    ELSE IF ch = "/" THEN Goto(ps, "vppRelPath")
    ELSE IF ch \in {".", "+", "-"} THEN ps
    ELSE IF ch = ":" THEN Goto(CaptureScheme(ps, uri, i), "vppAccOidRelOrSlash")
    ELSE IF ch \in {"?", "#"} THEN Return(ps, Unexpected)
    ELSE Goto(ps, "vppNamePath")

vppAccOidRelOrSlash(ps0, ch, uri, i) ==
    LET ps == [VPathParseResetAnchor(ps0, i) EXCEPT !.acc_prefix = 0, !.acc_digit = 0, !.acc_ext = 0]
    IN  IF ch \in NonAscii THEN Goto(ps, "vppNamePath")
        ELSE IF isalpha(ch) THEN [ps EXCEPT !.acc_alpha = 1, !.state = "vppAccPrefixAlphaRel"]
        ELSE IF isdigit(ch)
            THEN [ps EXCEPT !.state = "vppOidRel", !.oid = U64FromDigit(DigitVal(ch)), !.oid_anchor = i]
        ELSE IF ch # "/" THEN Goto(ps, "vppNamePath")
        ELSE Goto(ps, "vppSlash")

vppAccPrefixAlphaRel(ps, ch, uri, i) ==
    IF ch \in NonAscii THEN Goto(ZeroAlpha(ps), "vppNamePath")
    ELSE IF isalpha(ch) THEN [ps EXCEPT !.acc_alpha = @ + 1]
    ELSE IF isdigit(ch) THEN [ps EXCEPT !.acc_digit = @ + 1, !.state = "vppAccDigitRel"]
    ELSE IF ch = "_" THEN [ps EXCEPT !.acc_prefix = 1, !.acc_alpha = 0, !.state = "vppAccAlphaRel"]
    ELSE IF ch = "/" THEN Goto(ZeroAlpha(ps), "vppRelPath")
    ELSE IF ch = "?" THEN ToParam(CaptureAcc(ps, uri, i), i)
    ELSE IF ch = "#" THEN ToFragment(CaptureAcc(ps, uri, i), i)
    ELSE IF ch = ":" THEN Return(ps, Unexpected)
    ELSE Goto(ZeroAlpha(ps), "vppNamePath")

vppAccAlphaRel(ps, ch, uri, i) ==
    IF ch \in NonAscii THEN Goto(ZeroPA(ps), "vppNamePath")
    ELSE IF isalpha(ch) THEN [ps EXCEPT !.acc_alpha = @ + 1]
    ELSE IF isdigit(ch) THEN [ps EXCEPT !.acc_digit = @ + 1, !.state = "vppAccDigitRel"]
    ELSE IF ch = "/" THEN Goto(ZeroPA(ps), "vppRelPath")
    ELSE IF ch = "?" THEN ToParam(CaptureAcc(ps, uri, i), i)
    ELSE IF ch = "#" THEN ToFragment(CaptureAcc(ps, uri, i), i)
    ELSE IF ch = ":" THEN Return(ps, Unexpected)
    ELSE Goto(ZeroPA(ps), "vppNamePath")

vppAccDigitRel(ps, ch, uri, i) ==
    IF ch \in NonAscii \/ isalpha(ch) THEN Goto(ZeroPAD(ps), "vppNamePath")
    ELSE IF isdigit(ch) THEN [ps EXCEPT !.acc_digit = @ + 1]
    ELSE IF ch = "." THEN Goto(ps, "vppAccDotRel")
    ELSE IF ch = "/" THEN Goto(ZeroPAD(ps), "vppRelPath")
    ELSE IF ch = "?" THEN ToParam(CaptureAcc(ps, uri, i), i)
    ELSE IF ch = "#" THEN ToFragment(CaptureAcc(ps, uri, i), i)
    ELSE IF ch = ":" THEN Return(ps, Unexpected)
    ELSE Goto(ZeroPAD(ps), "vppNamePath")

vppAccExtRel(ps, ch, uri, i) ==
    IF ch \in NonAscii \/ isalpha(ch) THEN Goto(ZeroPADE(ps), "vppNamePath")
    ELSE IF isdigit(ch) THEN ps
    ELSE IF ch = "." THEN Goto(ps, "vppAccDotRel")
    ELSE IF ch = "/" THEN Goto(ZeroPADE(ps), "vppRelPath")
    ELSE IF ch = "?" THEN ToParam(CaptureAcc(ps, uri, i), i)
    ELSE IF ch = "#" THEN ToFragment(CaptureAcc(ps, uri, i), i)
    ELSE IF ch = ":" THEN Return(ps, Unexpected)
    ELSE IF ch = "_" /\ ps.acc_prefix # 0 /\ ps.acc_alpha = 0 /\ ps.acc_digit = 9 /\ ps.acc_ext = 1
        THEN Goto(ps, "vppAccUnderRel")
    ELSE Goto(ZeroPADE(ps), "vppNamePath")

vppAccSuffixRel(ps, ch, uri, i) ==
    IF ch \in NonAscii \/ isdigit(ch) THEN Goto(ZeroPADES(ps), "vppNamePath")
    ELSE IF isalpha(ch) THEN ps
    ELSE IF ch = "." THEN Goto(ps, "vppAccDotRel")
    ELSE IF ch = "/" THEN Goto(ZeroPADE(ps), "vppRelPath")
    ELSE IF ch = "?" THEN ToParam(CaptureAcc(ps, uri, i), i)
    ELSE IF ch = "#" THEN ToFragment(CaptureAcc(ps, uri, i), i)
    ELSE IF ch = ":" THEN Return(ps, Unexpected)
    ELSE Goto(ZeroPADE(ps), "vppNamePath")

vppOidRel(ps, ch, uri, i) ==
    IF ch \in NonAscii THEN [ps EXCEPT !.oid = U64Zero, !.state = "vppNamePath"]
    ELSE IF isdigit(ch)
        THEN [ps EXCEPT !.oid_anchor = IF ps.oid = U64Zero THEN i ELSE @,
                        !.oid = U64Mul10Add(@, DigitVal(ch))]
    ELSE IF ch = "/" THEN [ps EXCEPT !.oid = U64Zero, !.state = "vppRelPath"]
    ELSE IF ch = "?" THEN ToParam(CaptureOid(ps, uri, i), i)
    ELSE IF ch = "#" THEN ToFragment(CaptureOid(ps, uri, i), i)
    ELSE IF ch = ":" THEN Return(ps, Unexpected)
    ELSE [ps EXCEPT !.oid = U64Zero, !.state = "vppNamePath"]

vppAccDotRel(ps, ch, uri, i) ==
    IF ch \in NonAscii \/ isalpha(ch) THEN Goto(ZeroPADE(ps), "vppNamePath")
    ELSE IF isdigit(ch) THEN [ps EXCEPT !.acc_ext = @ + 1, !.state = "vppAccExtRel"]
    ELSE IF ch = "/" THEN Goto(ZeroPADE(ps), "vppRelPath")
    ELSE IF ch = ":" THEN Return(ps, Unexpected)
    ELSE Goto(ZeroPADE(ps), "vppNamePath")

vppAccUnderRel(ps, ch, uri, i) ==
    IF ch \in NonAscii \/ isdigit(ch) THEN Goto(ZeroPADE(ps), "vppNamePath")
    ELSE IF isalpha(ch) THEN [ps EXCEPT !.acc_suffix = @ + 1, !.state = "vppAccSuffixRel"]
    ELSE IF ch = "/" THEN Goto(ZeroPADE(ps), "vppRelPath")
    ELSE IF ch = ":" THEN Return(ps, Unexpected)
    ELSE Goto(ZeroPADE(ps), "vppNamePath")

vppSlash(ps, ch, uri, i) ==
    IF ch = "/"
        THEN IF ps.self.scheme_type = "vpuri_ncbi_file"
             THEN Goto(ps, "vppUNCOrMalformedPOSIXPath")
             ELSE Goto(ps, "vppAuthHostSpec")
    ELSE IF ch = ":" THEN Return(ps, Unexpected)
    ELSE IF ch = "?" THEN ToParam(CapturePath(ps, uri, i, "vpFullPath"), i)
    ELSE IF ch = "#" THEN ToFragment(CapturePath(ps, uri, i, "vpFullPath"), i)
    ELSE Goto(ps, "vppFullPath")

\* the part vppAuthHostSpec and vppHostSpec share; "name" is the state a letter leads to
HostSpec(ps0, ch, i, name) ==
    IF ch \in NonAscii THEN Return(ps0, Unexpected)
    ELSE LET ps == VPathParseResetAnchor(ps0, i)
         IN  IF isalpha(ch) THEN Goto(ps, name)
             ELSE IF isdigit(ch)
                 THEN [ps EXCEPT !.ip = 0, !.ipv4[1] = DigitVal(ch), !.state = "vppIPv4Port"]
             ELSE IF ch = "/" THEN Goto(ps, "vppFullPath")
             ELSE IF ch = "["
                 THEN [ps EXCEPT !.ip = 0, !.ipv6 = <<0, 0, 0, 0, 0, 0, 0, 0>>, !.state = "vppIPv6Colon"]
             ELSE Return(ps, Unexpected)

vppAuthHostSpec(ps, ch, uri, i) == HostSpec(ps, ch, i, "vppAuthHostNamePort")

vppHostSpec(ps, ch, uri, i) == HostSpec(ps, ch, i, "vppHostNamePort")

vppAuthHostNamePort(ps, ch, uri, i) ==
    IF ch \in NonAscii THEN Return(ps, Unexpected)
    ELSE IF isalnum(ch) THEN ps
    ELSE IF ch = "@"
        THEN Goto([ps EXCEPT !.self = VPathCaptureAuth(ps.self, uri, ps.anchor, i)], "vppHostSpec")
    ELSE IF ch \in {".", "+", "-", "_"} THEN ps
    ELSE IF ch = ":" THEN Goto(CaptureHostName(ps, uri, i), "vppPortSpec")
    ELSE IF ch = "/" THEN VPathParseResetAnchor(Goto(CaptureHostName(ps, uri, i), "vppFullPath"), i)
    ELSE Return(ps, Unexpected)

vppHostNamePort(ps, ch, uri, i) ==
    IF ch \in NonAscii THEN Return(ps, Unexpected)
    ELSE IF isalnum(ch) THEN ps
    ELSE IF ch \in {".", "+", "-", "_"} THEN ps
    ELSE IF ch = ":" THEN Goto(CaptureHostName(ps, uri, i), "vppPortSpec")
    ELSE IF ch = "/" THEN VPathParseResetAnchor(Goto(CaptureHostName(ps, uri, i), "vppFullPath"), i)
    ELSE Return(ps, Unexpected)

\* rc = VPathCapture... ( self, ... ); state = st; [reset anchor]; if ( rc != 0 ) return rc;
Captured(ps, cap, st) ==
    LET q == [ps EXCEPT !.rc = cap.rc, !.self = cap.self, !.state = st]
    IN  IF cap.rc # rcOK THEN Return(q, cap.rc) ELSE q

vppIPv4Port(ps, ch, uri, i) ==
    IF ch \in NonAscii THEN Return(ps, Unexpected)
    ELSE IF ps.ipv4[ps.ip + 1] >= 256 THEN Return(ps, RC("rcData", "rcExcessive"))
    ELSE IF isdigit(ch) THEN [ps EXCEPT !.ipv4[ps.ip + 1] = @ * 10 + DigitVal(ch)]
    ELSE LET q == [ps EXCEPT !.ip = @ + 1]
         IN  IF q.ip = 4
             THEN IF ch = ":" THEN Captured(q, VPathCaptureIPv4(q.self, q.ipv4), "vppPortSpec")
                  ELSE IF ch = "/"
                      THEN VPathParseResetAnchor(
                               Captured(q, VPathCaptureIPv4(q.self, q.ipv4), "vppFullPath"), i)
                  ELSE Return(q, Unexpected)
             ELSE IF ch = "." THEN Goto(q, "vppIPv4Dot")
             ELSE Return(q, Unexpected)

vppIPv4Dot(ps, ch, uri, i) ==
    IF ch \in NonAscii \/ ~isdigit(ch) THEN Return(ps, Unexpected)
    ELSE [ps EXCEPT !.ipv4[ps.ip + 1] = DigitVal(ch), !.state = "vppIPv4Port"]

vppIPv6Port(ps, ch, uri, i) ==
    IF ch \in NonAscii THEN Return(ps, Unexpected)
    ELSE IF ps.ipv6[ps.ip + 1] >= 65536 THEN Return(ps, RC("rcData", "rcExcessive"))
    ELSE IF isdigit(ch) THEN [ps EXCEPT !.ipv6[ps.ip + 1] = Shl(@, 4) + DigitVal(ch)]
    ELSE IF isxdigit(ch) THEN [ps EXCEPT !.ipv6[ps.ip + 1] = Shl(@, 4) + HexVal(ch)]
    ELSE IF ch = "]" THEN Captured(ps, VPathCaptureIPv6(ps.self, ps.ipv6), "vppPortSpecOrFullPath")
    ELSE IF ch = ":" /\ ps.ip + 1 # 8
        \* the break leaves the switch and "if ( rc != 0 ) return rc" reads rc,
        \* which nothing has assigned on this path
        THEN LET q == [ps EXCEPT !.ip = @ + 1, !.state = "vppIPv6Colon"]
             IN  IF q.rc # rcOK THEN Return(q, q.rc) ELSE q
    ELSE Return(ps, Unexpected)

vppIPv6Colon(ps, ch, uri, i) ==
    IF ch # ":"
    THEN IF ch \in NonAscii \/ ~isxdigit(ch) THEN Return(ps, Unexpected)
         ELSE [ps EXCEPT !.ipv6[ps.ip + 1] = IF isdigit(ch) THEN DigitVal(ch) ELSE HexVal(ch),
                         !.state = "vppIPv6Port"]
    ELSE Goto(ps, "vppIPv6Port")

vppPortSpecOrFullPath(ps, ch, uri, i) ==
    IF ch = ":" THEN Goto(ps, "vppPortSpec")
    ELSE IF ch = "/" THEN VPathParseResetAnchor(Goto(ps, "vppFullPath"), i)
    ELSE Return(ps, Unexpected)

vppPortSpec(ps0, ch, uri, i) ==
    IF ch \in NonAscii THEN Return(ps0, Unexpected)
    ELSE LET ps == VPathParseResetAnchor(ps0, i)
         IN  IF isalpha(ch) THEN Goto(ps, "vppPortName")
             ELSE IF isdigit(ch) THEN [ps EXCEPT !.port = DigitVal(ch), !.state = "vppPortNum"]
             ELSE IF ch = "/" THEN [ps EXCEPT !.self.missing_port = TRUE, !.state = "vppFullPath"]
             ELSE Return(ps, Unexpected)

vppPortName(ps, ch, uri, i) ==
    IF ch \in NonAscii THEN Return(ps, Unexpected)
    ELSE IF isalnum(ch) THEN ps
    ELSE IF ch = "/"
        THEN VPathParseResetAnchor(
                 Goto([ps EXCEPT !.self = VPathCapturePortName(ps.self, uri, ps.anchor, i)],
                      "vppFullPath"), i)
    ELSE Return(ps, Unexpected)

vppPortNum(ps, ch, uri, i) ==
    IF ch \in NonAscii THEN Return(ps, Unexpected)
    ELSE IF ps.port >= 65536 THEN Return(ps, RC("rcData", "rcExcessive"))
    ELSE IF isdigit(ch) THEN [ps EXCEPT !.port = @ * 10 + DigitVal(ch)]
    ELSE IF ch = "/"
        THEN LET cap == VPathCapturePortNum(ps.self, ps.port)
             IN  IF cap.rc # rcOK THEN Return([ps EXCEPT !.rc = cap.rc], cap.rc)
                 ELSE VPathParseResetAnchor(Captured(ps, cap, "vppFullPath"), i)
    ELSE Return(ps, Unexpected)

vppNamePath(ps, ch, uri, i) ==
    IF ch = "/" THEN Goto(ps, "vppRelPath")
    ELSE IF ch = ":" THEN Return(ps, Unexpected)
    ELSE IF ch = "?" THEN ToParam(CapturePath(ps, uri, i, "vpName"), i)
    ELSE IF ch = "#" THEN ToFragment(CapturePath(ps, uri, i, "vpName"), i)
    ELSE ps

vppUNCOrMalformedPOSIXPath(ps, ch, uri, i) ==
    IF ch = "/" THEN VPathParseResetAnchor(Goto(ps, "vppFullPath"), i)
    ELSE IF ch = ":" THEN Return(ps, Unexpected)
    ELSE IF ch = "?" THEN ToParam(CapturePath(ps, uri, i, "vpFullPath"), i)
    ELSE IF ch = "#" THEN ToFragment(CapturePath(ps, uri, i, "vpFullPath"), i)
    ELSE Goto(ps, "vppUNCPath")

\* case vppRelPath: case vppFullPath:
vppRelPath(ps, ch, uri, i) ==
    LET var == IF ps.state = "vppRelPath" THEN "vpRelPath" ELSE "vpFullPath"
    IN  IF ch = ":" THEN Return(ps, Unexpected)
        ELSE IF ch = "?" THEN ToParam(CapturePath(ps, uri, i, var), i)
        ELSE IF ch = "#" THEN ToFragment(CapturePath(ps, uri, i, var), i)
        ELSE ps

vppFullPath(ps, ch, uri, i) == vppRelPath(ps, ch, uri, i)

\* anything but '/' sets state = vppFullPath and falls into the case below
vppFullOrUNCPath(ps, ch, uri, i) ==
    IF ch = "/" THEN Goto(ps, "vppUNCOrMalformedPOSIXPath")
    ELSE vppFullPath(Goto(ps, "vppFullPath"), ch, uri, i)

vppUNCPath(ps, ch, uri, i) ==
    IF ch = ":" THEN Return(ps, Unexpected)
    ELSE IF ch = "?" THEN ToParam(CapturePath(ps, uri, i, "vpUNCPath"), i)
    ELSE IF ch = "#" THEN ToFragment(CapturePath(ps, uri, i, "vpUNCPath"), i)
    ELSE ps

vppParamName(ps, ch, uri, i) ==
    IF ch \in {":", "?"} THEN Return(ps, Unexpected)
    ELSE IF ch = "=" THEN Goto(ps, "vppParamValue")
    ELSE IF ch = "#" THEN ToFragment(CaptureQuery(ps, uri, i), i)
    ELSE ps

vppParamValue(ps, ch, uri, i) ==
    IF ch \in {":", "?", "="} THEN Return(ps, Unexpected)
    ELSE IF ch = "&" THEN Goto(ps, "vppParamName")
    ELSE IF ch = "#" THEN ToFragment(CaptureQuery(ps, uri, i), i)
    ELSE ps

vppFragment(ps, ch, uri, i) ==
    IF ch \in {":", "?", "#"} THEN Return(ps, Unexpected)
    ELSE ps

\* the outcome of utf8_utf32 at uri [ i ]: "bad" (< 0), "short" (0) or "ok"
utf8_utf32(uri, i) ==
    LET ch == uri[i + 1]
    IN  IF ch = BadUtf8 THEN "bad"
        ELSE IF ch = ShortUtf8 THEN (IF i + 1 = Len(uri) THEN "short" ELSE "bad")
        ELSE "ok"

\* one pass of the for loop: read the character at i and enter the state
ParseChar(ps, uri, i) ==
    LET ch == uri[i + 1]
        st == ps.state
    IN  IF utf8_utf32(uri, i) = "bad" THEN Return(ps, RC("rcChar", "rcInvalid"))
        ELSE IF utf8_utf32(uri, i) = "short" THEN Return(ps, Insufficient)
        ELSE CASE st = "vppStart" -> vppStart(ps, ch, uri, i)
               [] st = "vppAccPrefixAlphaNamePathOrScheme" -> vppAccPrefixAlphaNamePathOrScheme(ps, ch, uri, i)
               [] st = "vppAccAlphaNamePath" -> vppAccAlphaNamePath(ps, ch, uri, i)
               [] st = "vppAccDigitNamePathOrScheme" -> vppAccDigitNamePathOrScheme(ps, ch, uri, i)
               [] st = "vppAccDigitNamePath" -> vppAccDigitNamePath(ps, ch, uri, i)
               [] st = "vppAccExtNamePathOrScheme" -> vppAccExtNamePathOrScheme(ps, ch, uri, i)
               [] st = "vppAccExtNamePath" -> vppAccExtNamePath(ps, ch, uri, i)
               [] st = "vppAccSuffixNamePath" -> vppAccSuffixNamePath(ps, ch, uri, i)
               [] st = "vppAccDotNamePathOrScheme" -> vppAccDotNamePathOrScheme(ps, ch, uri, i)
               [] st = "vppAccDotNamePath" -> vppAccDotNamePath(ps, ch, uri, i)
               [] st = "vppAccUnderNamePath" -> vppAccUnderNamePath(ps, ch, uri, i)
               [] st = "vppNamePathOrScheme" -> vppNamePathOrScheme(ps, ch, uri, i)
               [] st = "vppAccOidRelOrSlash" -> vppAccOidRelOrSlash(ps, ch, uri, i)
               [] st = "vppAccPrefixAlphaRel" -> vppAccPrefixAlphaRel(ps, ch, uri, i)
               [] st = "vppAccAlphaRel" -> vppAccAlphaRel(ps, ch, uri, i)
               [] st = "vppAccDigitRel" -> vppAccDigitRel(ps, ch, uri, i)
               [] st = "vppAccExtRel" -> vppAccExtRel(ps, ch, uri, i)
               [] st = "vppAccSuffixRel" -> vppAccSuffixRel(ps, ch, uri, i)
               [] st = "vppOidRel" -> vppOidRel(ps, ch, uri, i)
               [] st = "vppAccDotRel" -> vppAccDotRel(ps, ch, uri, i)
               [] st = "vppAccUnderRel" -> vppAccUnderRel(ps, ch, uri, i)
               [] st = "vppSlash" -> vppSlash(ps, ch, uri, i)
               [] st = "vppAuthHostSpec" -> vppAuthHostSpec(ps, ch, uri, i)
               [] st = "vppAuthHostNamePort" -> vppAuthHostNamePort(ps, ch, uri, i)
               [] st = "vppHostSpec" -> vppHostSpec(ps, ch, uri, i)
               [] st = "vppHostNamePort" -> vppHostNamePort(ps, ch, uri, i)
               [] st = "vppIPv4Port" -> vppIPv4Port(ps, ch, uri, i)
               [] st = "vppIPv4Dot" -> vppIPv4Dot(ps, ch, uri, i)
               [] st = "vppIPv6Port" -> vppIPv6Port(ps, ch, uri, i)
               [] st = "vppIPv6Colon" -> vppIPv6Colon(ps, ch, uri, i)
               [] st = "vppPortSpecOrFullPath" -> vppPortSpecOrFullPath(ps, ch, uri, i)
               [] st = "vppPortSpec" -> vppPortSpec(ps, ch, uri, i)
               [] st = "vppPortName" -> vppPortName(ps, ch, uri, i)
               [] st = "vppPortNum" -> vppPortNum(ps, ch, uri, i)
               [] st = "vppNamePath" -> vppNamePath(ps, ch, uri, i)
               [] st = "vppUNCOrMalformedPOSIXPath" -> vppUNCOrMalformedPOSIXPath(ps, ch, uri, i)
               [] st = "vppFullOrUNCPath" -> vppFullOrUNCPath(ps, ch, uri, i)
               [] st = "vppRelPath" -> vppRelPath(ps, ch, uri, i)
               [] st = "vppFullPath" -> vppFullPath(ps, ch, uri, i)
               [] st = "vppUNCPath" -> vppUNCPath(ps, ch, uri, i)
               [] st = "vppParamName" -> vppParamName(ps, ch, uri, i)
               [] st = "vppParamValue" -> vppParamValue(ps, ch, uri, i)
               [] st = "vppFragment" -> vppFragment(ps, ch, uri, i)

AccEndStates ==
    { "vppAccPrefixAlphaNamePathOrScheme", "vppAccAlphaNamePath", "vppAccDigitNamePathOrScheme",
      "vppAccDigitNamePath", "vppAccExtNamePathOrScheme", "vppAccExtNamePath",
      "vppAccSuffixNamePath",
      "vppAccPrefixAlphaRel", "vppAccAlphaRel", "vppAccDigitRel", "vppAccExtRel", "vppAccSuffixRel" }

\* the states the switch after the loop answers with rcInsufficient, but for
\* vppIPv4Port, which falls into them when the address is not complete
EndInsufficient_noslash ==
    { "vppAccOidRelOrSlash", "vppAccDotRel", "vppAccUnderRel", "vppAuthHostSpec", "vppHostSpec",
      "vppIPv4Dot", "vppIPv6Port", "vppIPv6Colon", "vppPortSpecOrFullPath", "vppPortSpec" }

EndInsufficient ==
    { "vppAccOidRelOrSlash", "vppAccDotRel", "vppAccUnderRel", "vppSlash", "vppAuthHostSpec",
      "vppHostSpec",
      "vppIPv4Dot", "vppIPv6Port", "vppIPv6Colon", "vppPortSpecOrFullPath", "vppPortSpec" }

\* the switch after the loop: the closing action of the state the input ended
\* in; a state without a case leaves the switch for the return 0
ParseEnd(ps, uri) ==
    LET i == Len(uri)
        st == ps.state
    IN  CASE st = "vppStart" -> Return(ps, RC("rcString", "rcEmpty"))
          [] st \in AccEndStates -> Return(CaptureAcc(ps, uri, i), rcOK)
          [] st \in { "vppAccDotNamePathOrScheme", "vppAccDotNamePath", "vppAccUnderNamePath",
                      "vppNamePathOrScheme", "vppNamePath" }
                -> Return(CapturePath(ps, uri, i, "vpName"), rcOK)
          [] st = "vppOidRel" -> Return(CaptureOid(ps, uri, i), rcOK)
          [] st \in EndInsufficient -> Return(ps, Insufficient)
          [] st \in { "vppAuthHostNamePort", "vppHostNamePort" }
                -> Return(CaptureHostName(ps, uri, i), rcOK)
          [] st = "vppIPv4Port"
                -> IF ps.ip + 1 = 4
                   THEN LET cap == VPathCaptureIPv4(ps.self, ps.ipv4)
                        IN  Return([ps EXCEPT !.ip = 4, !.self = cap.self], cap.rc)
                   ELSE Return(ps, Insufficient)
          [] st = "vppPortName"
                -> Return([ps EXCEPT !.self = VPathCapturePortName(ps.self, uri, ps.anchor, i)], rcOK)
          [] st = "vppPortNum"
                -> LET cap == VPathCapturePortNum(ps.self, ps.port)
                   IN  Return([ps EXCEPT !.self = cap.self], cap.rc)
          [] st = "vppRelPath" -> Return(CapturePath(ps, uri, i, "vpRelPath"), rcOK)
          [] st \in { "vppUNCOrMalformedPOSIXPath", "vppFullOrUNCPath", "vppFullPath" }
                -> Return(CapturePath(ps, uri, i, "vpFullPath"), rcOK)
          [] st = "vppUNCPath" -> Return(CapturePath(ps, uri, i, "vpUNCPath"), rcOK)
          [] st \in { "vppParamName", "vppParamValue" } -> Return(CaptureQuery(ps, uri, i), rcOK)
          [] st = "vppFragment"
                -> Return([ps EXCEPT !.self = VPathCaptureFragment(ps.self, uri, ps.anchor, i)], rcOK)
          [] OTHER -> Return(ps, rcOK)

RECURSIVE ParseLoop(_, _, _)
ParseLoop(ps, uri, i) ==
    IF ps.done THEN ps
    ELSE IF i >= Len(uri) THEN ParseEnd(ps, uri)
    ELSE ParseLoop(ParseChar(ps, uri, i), uri, i + 1)

\* VPathParse ( self, uri, uri_size ) with the uninitialized rc holding junk:
\* the locals at the return, with ret the value returned and self the VPath written
VPathParse(uri, junk) == ParseLoop(ParseLocals(junk), uri, 0)

\* VPathMakeFromVText: [rc, path], path = NULL unless the parse returned 0
VPathMakeFromVText(text, junk) ==
    LET Made(ps) == IF ps.ret = rcOK THEN [rc |-> rcOK, path |-> ps.self]
                    ELSE [rc |-> ps.ret, path |-> NULL]
    IN  Made(VPathParse(text, junk))

\* ------------------------------------------------------------------------
\* the serializer

\* VPathGetSchemeInt without the test of query and fragment
VPathGetSchemeInt_file(self) ==
    IF Len(self.scheme) # 0 THEN [rc |-> rcOK, scheme |-> self.scheme]
    ELSE CASE self.path_type = "vpOID" -> [rc |-> rcOK, scheme |-> S_ncbi_obj]
           [] self.path_type = "vpAccession" -> [rc |-> rcOK, scheme |-> S_ncbi_acc]
           [] self.path_type \in {"vpNameOrOID", "vpNameOrAccession", "vpName", "vpRelPath",
                                  "vpFullPath", "vpUNCPath"}
                -> [rc |-> rcOK, scheme |-> S_file]
           [] OTHER -> [rc |-> RC("rcType", "rcIncorrect"), scheme |-> <<>>]

\* VPathGetSchemeInt: [rc, scheme]
VPathGetSchemeInt(self) ==
    IF Len(self.scheme) # 0 THEN [rc |-> rcOK, scheme |-> self.scheme]
    ELSE CASE self.path_type = "vpOID" -> [rc |-> rcOK, scheme |-> S_ncbi_obj]
           [] self.path_type = "vpAccession" -> [rc |-> rcOK, scheme |-> S_ncbi_acc]
           [] self.path_type \in {"vpNameOrOID", "vpNameOrAccession", "vpName", "vpRelPath", "vpFullPath"}
                -> IF Len(self.query) # 0 \/ Len(self.fragment) # 0
                   THEN [rc |-> rcOK, scheme |-> S_ncbi_file]
                   ELSE [rc |-> rcOK, scheme |-> S_file]
           [] self.path_type = "vpUNCPath" -> [rc |-> rcOK, scheme |-> S_ncbi_file]
           [] OTHER -> [rc |-> RC("rcType", "rcIncorrect"), scheme |-> <<>>]

\* the text VPathReadAuthInt prints; nothing (num_read = 0) without an auth
VPathReadAuthInt(self, prefix) ==
    IF Len(self.auth) = 0 THEN <<>> ELSE prefix \o self.auth

\* the text VPathReadHostInt prints
VPathReadHostInt(self, prefix) ==
    CASE self.host_type = "vhDNSName" -> prefix \o self.host
      [] self.host_type = "vhIPv4" ->
            prefix \o DecDigits(IPv4Octet(self.ipv4, 24)) \o <<".">>
                   \o DecDigits(IPv4Octet(self.ipv4, 16)) \o <<".">>
                   \o DecDigits(IPv4Octet(self.ipv4, 8)) \o <<".">>
                   \o DecDigits(IPv4Octet(self.ipv4, 0))
      [] self.host_type = "vhIPv6" ->
            LET lbrack == IF Len(prefix) # 0 THEN <<"[">> ELSE <<>>
                rbrack == IF Len(prefix) # 0 THEN <<"]">> ELSE <<>>
            IN  prefix \o lbrack
                \o DecDigits(self.ipv6[1]) \o <<":">> \o DecDigits(self.ipv6[2]) \o <<":">>
                \o DecDigits(self.ipv6[3]) \o <<":">> \o DecDigits(self.ipv6[4]) \o <<":">>
                \o DecDigits(self.ipv6[5]) \o <<":">> \o DecDigits(self.ipv6[6]) \o <<":">>
                \o DecDigits(self.ipv6[7]) \o <<":">> \o DecDigits(self.ipv6[8])
                \o rbrack

\* the text VPathReadPathInt prints
VPathReadPathInt(self) ==
    CASE self.path_type = "vpOID" -> U32Dec(self.obj_id)
      [] self.path_type \in {"vpAccession", "vpNameOrOID", "vpNameOrAccession", "vpName",
                             "vpRelPath", "vpUNCPath", "vpFullPath"} -> self.path
      [] OTHER -> <<>>

\* the bytes of a buffer from offset 0 to n: what was written, then the
\* terminating NUL, then bytes of the stack array nothing wrote ("fill")
BufferBytes(written, n, fill) ==
    [k \in 1..n |-> IF k <= Len(written) THEN written[k]
                    ELSE IF k = Len(written) + 1 THEN "NUL" ELSE fill]

\* VPathReadUriInt into a buffer large enough: [rc, total_read, written]
\* (written: the text in the buffer up to its terminating NUL)
VPathReadUriInt(self) ==
    LET sch == VPathGetSchemeInt(self)
        t1 == sch.scheme \o <<":">>
        auth == VPathReadAuthInt(self, <<"/", "/">>)
        has_auth == Len(auth) > 2
        host == VPathReadHostInt(self, IF has_auth THEN <<"@">> ELSE <<"/", "/">>)
        has_host == Len(host) > (2 - (IF has_auth THEN 1 ELSE 0))
        t3 == t1 \o auth \o host
        port == IF ~has_host THEN <<>>
                ELSE IF Len(self.portname) # 0 THEN <<":">> \o self.portname
                ELSE IF self.portnum # 0 THEN <<":">> \o DecDigits(self.portnum)
                ELSE IF self.missing_port THEN <<":">>
                ELSE <<>>
        \* num_read after the port step: the host's when no port step ran
        num_port == IF has_host THEN Len(port) ELSE Len(host)
        t4 == t3 \o port
        \* total -= 2: the next print overwrites the last two bytes
        back2 == SubSeq(t4, 1, Len(t4) - 2)
        tail == self.query \o self.fragment
    IN  IF sch.rc # rcOK THEN [rc |-> sch.rc, total_read |-> 0, written |-> <<>>]
        ELSE CASE self.path_type = "vpOID" ->
                    LET base == IF has_host THEN t4 \o <<"/">> ELSE back2
                        out == base \o U32Dec(self.obj_id) \o tail
                    IN  [rc |-> rcOK, total_read |-> Len(out), written |-> out]
               [] self.path_type \in {"vpAccession", "vpNameOrOID", "vpNameOrAccession", "vpName",
                                      "vpRelPath", "vpUNCPath"} ->
                    LET out == back2 \o self.path \o tail
                    IN  [rc |-> rcOK, total_read |-> Len(out), written |-> out]
               [] self.path_type = "vpFullPath" ->
                    LET out == t4 \o self.path \o tail
                    IN  [rc |-> rcOK, total_read |-> Len(out), written |-> out]
               \* no case prints: total + num_read counts the last print twice
               [] OTHER -> [rc |-> rcOK, total_read |-> Len(t4) + num_port, written |-> t4]

\* the sanity checks of VPathReadUriInt
ReadUriAsserts(self) ==
    LET auth == VPathReadAuthInt(self, <<"/", "/">>)
        has_auth == Len(auth) > 2
        host == VPathReadHostInt(self, IF has_auth THEN <<"@">> ELSE <<"/", "/">>)
        has_host == Len(host) > (2 - (IF has_auth THEN 1 ELSE 0))
    IN  /\ ~has_auth \/ has_host
        /\ Len(self.path) = 0 \/ self.path[1] = "/" \/ ~has_host
        /\ Len(self.query) = 0 \/ self.query[1] = "?"
        /\ Len(self.fragment) = 0 \/ self.fragment[1] = "#"

\* VPathMakeString ( self, & str ) with a non-NULL str: [rc, str]; str is the
\* bytes of the String made, meaningful when rc = 0
VPathMakeString(self, fill) ==
    IF self = NULL THEN [rc |-> RC("rcSelf", "rcNull"), str |-> <<>>]
    ELSE IF self.from_uri \/ Len(self.query) # 0 \/ Len(self.fragment) # 0
    THEN LET Made(r) ==
                 [rc |-> r.rc,
                  str |-> IF r.rc = rcOK THEN BufferBytes(r.written, r.total_read, fill)
                          ELSE <<>>]
         IN  Made(VPathReadUriInt(self))
    ELSE CASE self.path_type = "vpHostName" ->
                [rc |-> rcOK, str |-> VPathReadHostInt(self, <<>>)]
           [] self.path_type = "vpEndpoint" ->
                \* ":%u" is handed & self -> portnum: an address is printed
                [rc |-> rcOK,
                 str |-> VPathReadHostInt(self, <<>>) \o <<":">>
                         \o (IF Len(self.portname) # 0 THEN self.portname ELSE <<fill>>)]
           [] OTHER -> [rc |-> rcOK, str |-> VPathReadPathInt(self)]

\* strcase_match ( a, b ): how many leading characters agree up to letter case
RECURSIVE strcase_match(_, _)
strcase_match(a, b) ==
    IF Len(a) = 0 \/ Len(b) = 0 \/ tolower(a[1]) # tolower(b[1]) THEN 0
    ELSE 1 + strcase_match(Tail(a), Tail(b))

\* string_chr ( s, ch ): the offset of the first ch in s, or -1 for NULL
string_chr(s, ch) ==
    IF \E k \in DOMAIN s : s[k] = ch
    THEN (CHOOSE k \in DOMAIN s : s[k] = ch /\ \A j \in 1..(k - 1) : s[j] # ch) - 1
    ELSE -1

\* the while loop of VPathFindParam with start at offset "start" of query q
RECURSIVE FindParamFrom(_, _, _)
FindParamFrom(q, start, param) ==
    LET end == Len(q)
        qsize == Len(param)
        matching == strcase_match(SubSeq(q, start + 1, end), param)
        at == start + matching
        amp == string_chr(SubSeq(q, at + 1, end), "&")
    IN  IF matching = qsize /\ (at = end \/ q[at + 1] = "&")
        THEN [rc |-> rcOK, val |-> <<>>]
        ELSE IF matching = qsize /\ q[at + 1] = "="
        THEN LET val == at + 1
                 pend == string_chr(SubSeq(q, val + 1, end), "&")
             IN  [rc |-> rcOK,
                  val |-> IF pend = -1 THEN SubSeq(q, val + 1, end) ELSE SubSeq(q, val + 1, val + pend)]
        ELSE IF amp = -1 THEN [rc |-> RC("rcParam", "rcNotFound"), val |-> <<>>]
        ELSE FindParamFrom(q, at + amp + 1, param)

\* VPathFindParam matching from the '?' of the query on
VPathFindParam_from0(self, param) ==
    IF Len(param) = 0 THEN [rc |-> RC("rcParam", "rcEmpty"), val |-> <<>>]
    ELSE IF 1 < Len(self.query) THEN FindParamFrom(self.query, 0, param)
    ELSE [rc |-> RC("rcParam", "rcNotFound"), val |-> <<>>]

\* VPathFindParam: [rc, val]
VPathFindParam(self, param) ==
    IF Len(param) = 0 THEN [rc |-> RC("rcParam", "rcEmpty"), val |-> <<>>]
    ELSE IF 1 < Len(self.query) THEN FindParamFrom(self.query, 1, param)
    ELSE [rc |-> RC("rcParam", "rcNotFound"), val |-> <<>>]

\* VPathReadTestSelf
VPathReadTestSelf(self) ==
    IF self = NULL THEN RC("rcSelf", "rcNull")
    ELSE IF self.path_type = "vpInvalid" THEN RC("rcSelf", "rcInvalid")
    ELSE rcOK

\* VPathReadParam into a buffer large enough: [rc, val]
VPathReadParam(self, param) ==
    IF VPathReadTestSelf(self) # rcOK THEN [rc |-> VPathReadTestSelf(self), val |-> <<>>]
    ELSE VPathFindParam(self, param)

\* ------------------------------------------------------------------------
\* the accessors reading into a buffer of buffer_size bytes

\* string_printf ( dst, bsize, & num_writ, fmt, ... ) with the formatted text
\* given: [rc, num_read, text].  The text and its NUL have to fit.
string_printf(formatted, bsize) ==
    IF Len(formatted) < bsize
    THEN [rc |-> rcOK, num_read |-> Len(formatted), text |-> formatted]
    ELSE [rc |-> RC("rcBuffer", "rcInsufficient"), num_read |-> 0, text |-> <<>>]

\* VPathSetInvalidReturn: [rc, num_read, text, oob]
VPathSetInvalidReturn(rc) == [rc |-> rc, num_read |-> 0, text |-> <<>>, oob |-> FALSE]

\* a print at & buffer [ total ] of a buffer holding buf; outside the buffer
\* when total has wrapped below 0
PrintAt(buf, total, p) ==
    IF p.rc # rcOK \/ total < 0 \/ total > Len(buf) THEN buf
    ELSE SubSeq(buf, 1, total) \o p.text

\* the element of a set of one element
Only(S) == CHOOSE x \in S : TRUE

\* the locals of VPathReadUriInt after the print of the scheme:
\* [rc, total, avail, num_read, buf, has_auth, has_host]
UriScheme(self, buffer_size) ==
    LET p == string_printf(VPathGetSchemeInt(self).scheme \o <<":">>, buffer_size)
    IN  [rc |-> p.rc, total |-> p.num_read,
         avail |-> IF p.rc = rcOK THEN buffer_size - p.num_read ELSE 0,
         num_read |-> p.num_read, buf |-> p.text, has_auth |-> FALSE, has_host |-> FALSE]

\* what a print p at & buffer [ total ] makes of the locals l
Printed2(l, p) ==
    [l EXCEPT !.rc = p.rc, !.num_read = p.num_read, !.total = @ + p.num_read,
              !.avail = @ - (IF p.rc = rcOK THEN p.num_read ELSE 0),
              !.buf = PrintAt(@, l.total, p)]

\* ... after the print of the auth
UriAuth(self, l) ==
    LET p == IF Len(self.auth) = 0 THEN [rc |-> rcOK, num_read |-> 0, text |-> <<>>]
             ELSE string_printf(VPathReadAuthInt(self, <<"/", "/">>), l.avail)
    IN  [Printed2(l, p) EXCEPT !.has_auth = p.num_read > 2]

\* ... after the print of the host
UriHost(self, l) ==
    LET p == string_printf(VPathReadHostInt(self, IF l.has_auth THEN <<"@">> ELSE <<"/", "/">>),
                           l.avail)
    IN  [Printed2(l, p) EXCEPT !.has_host = p.num_read > (2 - (IF l.has_auth THEN 1 ELSE 0))]

\* ... after the print of the port
UriPort(self, l) ==
    IF ~l.has_host THEN l
    ELSE IF Len(self.portname) # 0
    THEN Printed2(l, string_printf(<<":">> \o self.portname, l.avail))
    ELSE IF self.portnum # 0
    THEN Printed2(l, string_printf(<<":">> \o DecDigits(self.portnum), l.avail))
    ELSE IF self.missing_port THEN Printed2(l, string_printf(<<":">>, l.avail))
    ELSE Printed2(l, [rc |-> l.rc, num_read |-> 0, text |-> <<>>])

\* the print of the remainder and the return: [rc, num_read, text, oob];
\* num_read below 0 stands for a size_t wrapped around, oob for a print that
\* went to an address before the buffer
UriRemainder(self, buffer_size, l) ==
    LET tail == self.query \o self.fragment
        \* "total -= 2; avail += 2;"
        back == self.path_type \in {"vpAccession", "vpNameOrOID", "vpNameOrAccession", "vpName",
                                    "vpRelPath", "vpUNCPath"}
                \/ (self.path_type = "vpOID" /\ ~l.has_host)
        at == [l EXCEPT !.total = IF back THEN @ - 2 ELSE @, !.avail = IF back THEN @ + 2 ELSE @]
        prints == self.path_type \in {"vpOID", "vpAccession", "vpNameOrOID", "vpNameOrAccession",
                                      "vpName", "vpRelPath", "vpUNCPath", "vpFullPath"}
        p == IF self.path_type = "vpOID"
             THEN string_printf((IF l.has_host THEN <<"/">> ELSE <<>>) \o U32Dec(self.obj_id) \o tail,
                                at.avail)
             ELSE IF prints THEN string_printf(self.path \o tail, at.avail)
             ELSE [rc |-> l.rc, num_read |-> l.num_read, text |-> <<>>]
    IN  [rc |-> p.rc,
         num_read |-> at.total + p.num_read,
         text |-> IF p.rc # rcOK /\ buffer_size # 0 THEN <<>>
                  ELSE IF prints THEN PrintAt(l.buf, at.total, p) ELSE l.buf,
         oob |-> prints /\ p.rc = rcOK /\ at.total < 0]

\* VPathReadUriInt ( self, buffer, buffer_size, & total_read ): [rc, num_read,
\* text, oob], each print working on the locals the one before it left
VPathReadUriIntBuf(self, buffer_size) ==
    IF VPathGetSchemeInt(self).rc # rcOK THEN VPathSetInvalidReturn(VPathGetSchemeInt(self).rc)
    ELSE Only({ UriRemainder(self, buffer_size, l4) :
                l4 \in { UriPort(self, l3) :
                l3 \in { UriHost(self, l2) :
                l2 \in { UriAuth(self, l1) :
                l1 \in { UriScheme(self, buffer_size) } } } } })

\* the nine accessors
Accessors == {"ReadUri", "ReadScheme", "ReadAuth", "ReadHost", "ReadPortName", "ReadPath",
              "ReadQuery", "ReadParam", "ReadFragment"}

\* the result of string_printf as the result of an accessor
Printed(p) == [rc |-> p.rc, num_read |-> p.num_read, text |-> p.text, oob |-> FALSE]

\* VPathReadMember with idx the number of leading characters "%:*-$S" skips
VPathReadMember(self, mbr, idx, buffer_size) ==
    IF VPathReadTestSelf(self) # rcOK THEN VPathSetInvalidReturn(VPathReadTestSelf(self))
    ELSE Printed(string_printf(SubSeq(mbr, idx + 1, Len(mbr)), buffer_size))

\* VPathReadUri, VPathReadScheme, ... VPathReadFragment ( self, buffer,
\* buffer_size, & num_read ) by name: [rc, num_read, text, oob]
Accessor(kind, self, param, buffer_size) ==
    IF self = NULL THEN VPathSetInvalidReturn(VPathReadTestSelf(self))
    ELSE CASE kind = "ReadPortName" -> VPathReadMember(self, self.portname, 0, buffer_size)
           [] kind = "ReadQuery" -> VPathReadMember(self, self.query, 1, buffer_size)
           [] kind = "ReadFragment" -> VPathReadMember(self, self.fragment, 1, buffer_size)
           [] VPathReadTestSelf(self) # rcOK -> VPathSetInvalidReturn(VPathReadTestSelf(self))
           [] kind = "ReadUri" -> VPathReadUriIntBuf(self, buffer_size)
           [] kind = "ReadScheme" ->
                LET sch == VPathGetSchemeInt(self)
                IN  IF sch.rc # rcOK THEN [rc |-> sch.rc, num_read |-> 0, text |-> <<>>, oob |-> FALSE]
                    ELSE Printed(string_printf(sch.scheme, buffer_size))
           [] kind = "ReadAuth" ->
                IF Len(self.auth) = 0 THEN [rc |-> rcOK, num_read |-> 0, text |-> <<>>, oob |-> FALSE]
                ELSE Printed(string_printf(VPathReadAuthInt(self, <<>>), buffer_size))
           [] kind = "ReadHost" -> Printed(string_printf(VPathReadHostInt(self, <<>>), buffer_size))
           [] kind = "ReadPath" ->
                IF self.path_type \in {"vpOID", "vpAccession", "vpNameOrOID", "vpNameOrAccession",
                                       "vpName", "vpRelPath", "vpUNCPath", "vpFullPath"}
                THEN Printed(string_printf(VPathReadPathInt(self), buffer_size))
                ELSE [rc |-> rcOK, num_read |-> 0, text |-> <<>>, oob |-> FALSE]
           [] kind = "ReadParam" ->
                LET val == VPathFindParam(self, param)
                IN  IF val.rc = rcOK THEN Printed(string_printf(val.val, buffer_size))
                    ELSE VPathSetInvalidReturn(val.rc)

\* VFSManagerVMakePath handing out the path of a failed parse
VFSManagerVMakePath_keep(text, direct, junk) ==
    IF direct /\ Len(text) = 0
    THEN [rc |-> RC("rcPath", "rcEmpty"), path |-> NULL, parsed |-> FALSE]
    ELSE LET ps == VPathParse(text, junk)
         IN  [rc |-> ps.ret, path |-> ps.self, parsed |-> TRUE]

\* VFSManagerVMakePath with self and new_path non-NULL: [rc, path, parsed].
\* "direct": the text is path_fmt itself; otherwise path_fmt is "%s" and the
\* text its argument.  parsed: VPathMakeFromVText was called.
VFSManagerVMakePath(text, direct, junk) ==
    IF direct /\ Len(text) = 0
    THEN [rc |-> RC("rcPath", "rcEmpty"), path |-> NULL, parsed |-> FALSE]
    ELSE LET Made(r) ==
                 IF r.rc = rcOK
                 THEN LET sch == VPathGetSchemeInt(r.path)
                          path == IF ~r.path.from_uri /\ sch.rc = rcOK
                                  THEN [r.path EXCEPT !.scheme = sch.scheme]
                                  ELSE r.path
                      IN  [rc |-> rcOK, path |-> path, parsed |-> TRUE]
                 ELSE [rc |-> r.rc, path |-> NULL, parsed |-> TRUE]
         IN  Made(VPathMakeFromVText(text, junk))

\* ------------------------------------------------------------------------
\* the texts the paths are made from

Rep(c, n) == [k \in 1..n |-> c]

\* accession-shaped names: [prefix_] letters digits [.digits]* [_letters]
MaxAlpha == 17
MaxDigit == 9
MaxExt == 1
MaxSuffix == 1

AlphaTexts(a) ==
    {Rep("A", a)}
    \cup (IF a >= 2 THEN {<<"N", "A">> \o Rep("A", a - 2)} ELSE {})
    \cup (IF a = 3 THEN {<<"S", "R", "R">>} ELSE {})

DigitTexts(d) ==
    {Rep("1", d)} \cup (IF d = 6 THEN {<<"0", "0", "1", "6", "5", "6">>} ELSE {})

RECURSIVE ExtText(_)
ExtText(e) == IF e = 0 THEN <<>> ELSE <<".", "1">> \o ExtText(e - 1)

RECURSIVE SuffixText(_)
SuffixText(x) == IF x = 0 THEN <<>> ELSE <<"_", "x">> \o SuffixText(x - 1)

AccTexts ==
    UNION { UNION { { pre \o al \o dg \o ExtText(e) \o SuffixText(x) :
                        pre \in {<<>>, <<"N", "C", "_">>}, al \in AlphaTexts(a), dg \in DigitTexts(d) } :
                    a \in 0..MaxAlpha, d \in 0..MaxDigit } :
            e \in 0..MaxExt, x \in 0..MaxSuffix }

\* object ids: "ncbi-obj:" zeros digits
MaxZeros == 11
MaxNines == 11

OidBodies ==
    { <<>>, <<"1">>, <<"4", "2">>,
      <<"4", "2", "9", "4", "9", "6", "7", "2", "9", "5">>,
      <<"4", "2", "9", "4", "9", "6", "7", "2", "9", "6">>,
      <<"4", "2", "9", "4", "9", "6", "7", "2", "9", "7">>,
      \* 2^64 followed by 42
      <<"1", "8", "4", "4", "6", "7", "4", "4", "0", "7", "3", "7", "0", "9", "5", "5",
        "1", "6", "1", "6", "4", "2">> }
    \cup { Rep("9", n) : n \in 1..MaxNines }

OidTexts ==
    { S_ncbi_obj \o <<":">> \o Rep("0", z) \o b : z \in 0..MaxZeros, b \in OidBodies }

\* schemes: the ten of the specification in three spellings, and others
S_https == <<"h", "t", "t", "p", "s">>
S_ncbi_vfs == S_ncbi \o <<"v", "f", "s">>

KnownSchemes ==
    { S_file, S_http, S_https, S_ftp, S_fasp, S_ncbi_acc, S_ncbi_obj, S_ncbi_file,
      S_ncbi_vfs, S_x_ncbi_legrefseq }

Upper(s) == [k \in DOMAIN s |-> toupper(s[k])]
Capital(s) == [k \in DOMAIN s |-> IF k = 1 THEN toupper(s[k]) ELSE s[k]]

MaxSchemeLen == 2
SchemeChars == {"f", "x", "1", "-"}

RECURSIVE Strings(_, _)
Strings(alphabet, n) ==
    IF n = 0 THEN {<<>>}
    ELSE LET shorter == Strings(alphabet, n - 1)
         IN  shorter \cup { <<c>> \o t : c \in alphabet, t \in {u \in shorter : Len(u) = n - 1} }

OtherSchemes ==
    { <<"f">> \o t : t \in Strings(SchemeChars, MaxSchemeLen - 1) }
    \cup { <<"h", "t", "t", "p", "x">>, <<"f", "i", "l", "e", "s">>,
           <<"n", "c", "b", "i", "-", "x", "y", "z">>, <<"n", "c", "b", "i", "-", "a", "c", "x">>,
           <<"n", "c", "b", "i", "-", "f", "o", "o", "l">>,
           <<"x", "-", "n", "c", "b", "i", "-", "l", "e", "g", "r", "e", "f", "s", "e", "x">> }

Schemes == KnownSchemes \cup {Upper(s) : s \in KnownSchemes} \cup {Capital(s) : s \in KnownSchemes}
           \cup OtherSchemes

SchemeTails ==
    { <<":">>, <<":", "/">>, <<":", "/", "/">>, <<":", "/", "x">>, <<":", "/", "/", "h", "/", "x">>,
      <<":", "x">>, <<":", "1">>, <<":", "/", "x", "?", "e", "n", "c">> }

SchemeTexts == { s \o t : s \in Schemes, t \in SchemeTails }

\* URLs: "http://" host [port] [path]; the host a name, k dotted octets or
\* k bracketed groups, one of them taken from the values of interest
MaxOctets == 4
MaxGroups == 8

OctetValues == {<<"1">>, <<"2", "5", "5">>, <<"2", "5", "6">>, <<"1", "0", "0", "0">>}
GroupValues == {<<"1">>, <<"f", "f", "f", "f">>, <<"1", "0", "0", "0", "0">>}

RECURSIVE Join(_, _)
Join(parts, sep) ==
    IF Len(parts) = 0 THEN <<>>
    ELSE IF Len(parts) = 1 THEN parts[1]
    ELSE parts[1] \o sep \o Join(Tail(parts), sep)

\* k parts, the one at pos v, the others 2
Parts(k, pos, v) == [j \in 1..k |-> IF j = pos THEN v ELSE <<"2">>]

IPv4Of(k, vals) == { Join(Parts(k, pos, v), <<".">>) : pos \in 1..k, v \in vals }
IPv4With(vals) == UNION { IPv4Of(k, vals) : k \in 1..MaxOctets }

IPv6Of(k, vals) == { <<"[">> \o Join(Parts(k, pos, v), <<":">>) \o <<"]">> : pos \in 1..k, v \in vals }
IPv6With(vals) == UNION { IPv6Of(k, vals) : k \in 1..MaxGroups }

IPv4Texts == IPv4With(OctetValues)

IPv6Texts == IPv6With(GroupValues) \cup { <<"[", "f", "f", "f", "f", "f">>, <<"[", "2", ":", "f", "f", "f", "f", "f">>, <<"[", ":", ":", "1", "]">>, <<"[", "1", ":", ":", "]">> }

HostTexts == {<<"h">>} \cup IPv4Texts \cup IPv6Texts

PortTexts == {<<>>, <<":">>, <<":", "8", "0">>, <<":", "6", "5", "5", "3", "5">>, <<":", "6", "5", "5", "3", "6">>, <<":", "p">>}

PathTexts == {<<>>, <<"/">>, <<"/", "x">>}

QueryTexts ==
    { <<>>, <<"?", "e", "n", "c">>, <<"?", "e", "n", "c", "r", "y", "p", "t">>, <<"?", "E", "N", "C", "=", "1">>, <<"?", "e", "n", "c", "=", "1", "&", "p", "w", "f", "i", "l", "e", "=", "p">>, <<"?", "t", "i", "c", "=", "t", "&", "v", "d", "b", "-", "c", "t", "x", "=", "c", "&", "r", "e", "a", "d", "g", "r", "o", "u", "p", "=", "r">>,
      <<"?", "x", "=", "e", "n", "c">>, <<"?", "e", "n", "c", "x", "&", "e", "n", "c", "=", "2">> }

FragmentTexts == {<<>>, <<"#", "f">>}

QueryBases ==
    { <<"h", "t", "t", "p", ":", "/", "/", "h", "/", "x">>, <<"h", "t", "t", "p", ":", "/", "/", "u", "@", "h", "/", "x">>, <<"h", "t", "t", "p", ":", "/", "/", "h", ":", "8", "0", "/", "x">>, <<"h", "t", "t", "p", ":", "/", "/", "1", ".", "2", ".", "3", ".", "4", "/", "x">>, <<"h", "t", "t", "p", ":", "/", "/", "[", "f", "f", "f", "f", "]", "/", "x">>,
      <<"h", "t", "t", "p", ":", "/", "/", "[", "1", ":", "2", ":", "3", ":", "4", ":", "5", ":", "6", ":", "7", ":", "8", "]", ":", "8", "0", "/", "x">>, <<"n", "c", "b", "i", "-", "f", "i", "l", "e", ":", "/", "x">>, <<"n", "c", "b", "i", "-", "a", "c", "c", ":", "S", "R", "R", "0", "0", "1", "6", "5", "6">>, <<"n", "c", "b", "i", "-", "o", "b", "j", ":", "4", "2">>,
      <<"x">>, <<"/", "x">>, <<"1">>, <<"S", "R", "R", "0", "0", "1", "6", "5", "6">>, <<"h", "t", "t", "p", ":", "/", "/", "h">> }

UrlTexts ==
    { S_http \o <<":", "/", "/">> \o h \o pt \o pa : h \in HostTexts, pt \in PortTexts, pa \in PathTexts }
    \cup { b \o qu \o fr : b \in QueryBases, qu \in QueryTexts, fr \in FragmentTexts }

\* URIs scheme://dns-host:port/path?query#fragment, every part present
UriSchemes == { S_http, Upper(S_http), S_ftp, S_fasp, S_file, S_ncbi_acc, S_https, <<"f", "x">>, S_ncbi_file }
UriHosts == { <<"e", "x", "a", "m", "p", "l", "e", ".", "o", "r", "g">>, <<"a", "-", "b", "_", "c", "+", "d", ".", "x", "1">> }
UriPorts == { <<"1">>, <<"8", "0">>, <<"8", "0", "8", "0">>, <<"6", "5", "5", "3", "5">> }
UriPaths == { <<"/">>, <<"/", "a", "/", "b", ".", "c">> }
UriQueries == { <<"?", "x", "=", "1">>, <<"?", "e", "n", "c">>, <<"?", "a", "=", "1", "&", "b", "=", "2">> }
UriFragments == { <<"#", "f">>, <<"#", "f", "r", "a", "g">> }

UriParts(schemes) ==
    [scheme : schemes, host : UriHosts, port : UriPorts, path : UriPaths,
     query : UriQueries, fragment : UriFragments]

UriText(u) ==
    u.scheme \o <<":", "/", "/">> \o u.host \o <<":">> \o u.port \o u.path \o u.query \o u.fragment

UriTexts == { UriText(u) : u \in UriParts(UriSchemes) }

\* queries of at most MaxElems elements key[=value] joined by '&'
MaxElems == 2
ElemKeys == { <<"a">>, <<"a", "b">>, <<"A", "B">>, <<"x", "a">>, <<"b">> }
ElemValues == { <<>>, <<"=">>, <<"=", "a">>, <<"=", "a", "b">> }
Elems == { k \o v : k \in ElemKeys, v \in ElemValues }

RECURSIVE ElemLists(_)
ElemLists(n) ==
    IF n = 0 THEN {<<>>}
    ELSE ElemLists(n - 1)
         \cup { <<e>> \o l : e \in Elems, l \in {m \in ElemLists(n - 1) : Len(m) = n - 1} }

ElemQueryTexts ==
    { <<"h", "t", "t", "p", ":", "/", "/", "h", "/", "x", "?">> \o Join(l, <<"&">>) : l \in ElemLists(MaxElems) }
    \cup { <<"h", "t", "t", "p", ":", "/", "/", "h", "/", "x", "?", "a", "&", "&", "a", "b", "=", "a", "&">>, <<"h", "t", "t", "p", ":", "/", "/", "h", "/", "x", "?", "&", "a", "=", "b">>, <<"h", "t", "t", "p", ":", "/", "/", "h", "/", "x", "?", "a", "b", "&", "a", "=", "&", "a", "=", "b", "#", "a", "=", "a", "b">> }

\* the names read: those VPathOption looks up, and others
OtherNames == { <<>>, <<"a">>, <<"a", "b">>, <<"B">> }

\* every string of at most MaxLen of these characters
MaxLen == 3
AnyChars == {"a", "1", ":", "/", "?", "#", ".", "U+00E9", BadUtf8, ShortUtf8}
AnyTexts == Strings(AnyChars, MaxLen)

\* the names VPathOption looks up
OptionKeys == {<<"e", "n", "c">>, <<"e", "n", "c", "r", "y", "p", "t">>, <<"p", "w", "f", "i", "l", "e">>, <<"r", "e", "a", "d", "g", "r", "o", "u", "p">>, <<"v", "d", "b", "-", "c", "t", "x">>, <<"t", "i", "c">>}

\* what the bytes of the stack buffer hold that nothing wrote
StackBytes == {"NUL", "/"}

\* ------------------------------------------------------------------------
\* the state machine: a text becomes a path, the path a String, the String a
\* path again, and a parameter is read from both paths

VARIABLES text, pc, made, str, remade, read, out, singleton, objs, thr, res

vars == <<text, pc, made, str, remade, read, out, singleton, objs, thr, res>>

NoPath == [rc |-> rcOK, path |-> NULL, parsed |-> FALSE]
NoString == [rc |-> rcOK, str |-> <<>>]
NoParam == [rc |-> rcOK, val |-> <<>>]
NoRead == [param |-> <<>>, first |-> NoParam, second |-> NoParam]

\* no accessor has been called with a buffer
NoOut == [called |-> FALSE]

\* the threads that may call the manager; a thread that does not take part
Threads == {1, 2}
\* pm: * pmanager; obj: the instance the call works on; held: the references
\* the thread was handed and has not released; uaf: it touched freed memory
NoThread == [active |-> FALSE, pc |-> "idle", pm |-> 0, obj |-> 0, rc |-> rcOK, held |-> <<>>,
             uaf |-> FALSE]

\* no path has been handed to the manager for resolution
NoRes == [called |-> FALSE]

InitOf(texts) ==
    /\ text \in texts
    /\ pc = "start"
    /\ made = NoPath
    /\ str = NoString
    /\ remade = NoPath
    /\ read = NoRead
    /\ out = NoOut
    /\ singleton = 0
    /\ objs = <<>>
    /\ thr = [t \in Threads |-> NoThread]
    /\ res = NoRes

Init == InitOf(AccTexts \cup OidTexts \cup SchemeTexts \cup UrlTexts \cup AnyTexts)

\* VFSManagerMakePath ( mgr, & made, text ) or ( mgr, & made, "%s", text )
MakePath ==
    /\ pc = "start"
    /\ \E direct \in BOOLEAN, junk \in {rcOK, rcJunk} :
          made' = VFSManagerVMakePath(text, direct, junk)
    /\ pc' = "made"
    /\ UNCHANGED <<text, str, remade, read>>
    /\ UNCHANGED <<out, singleton, objs, thr, res>>

\* VPathMakeFromText ( & made, "%s%S%S", ... ): the path as parsed, its scheme
\* left as the text gave it
MakeFromText ==
    /\ pc = "start"
    /\ \E junk \in {rcOK, rcJunk} :
          LET Made(r) == [rc |-> r.rc, path |-> r.path, parsed |-> TRUE]
          IN  made' = Made(VPathMakeFromVText(text, junk))
    /\ pc' = "made"
    /\ UNCHANGED <<text, str, remade, read>>
    /\ UNCHANGED <<out, singleton, objs, thr, res>>

\* VPathMakeString ( made, & str )
MakeString ==
    /\ pc = "made"
    /\ made.rc = rcOK
    /\ \E fill \in StackBytes : str' = VPathMakeString(made.path, fill)
    /\ pc' = "stringed"
    /\ UNCHANGED <<text, made, remade, read>>
    /\ UNCHANGED <<out, singleton, objs, thr, res>>

\* VFSManagerMakePath ( mgr, & remade, "%S", str )
RemakePath ==
    /\ pc = "stringed"
    /\ str.rc = rcOK
    /\ \E junk \in {rcOK, rcJunk} : remade' = VFSManagerVMakePath(str.str, FALSE, junk)
    /\ pc' = "remade"
    /\ UNCHANGED <<text, made, str, read>>
    /\ UNCHANGED <<out, singleton, objs, thr, res>>

\* VPathReadParam ( made, param, ... ) and VPathReadParam ( remade, param, ... )
ReadParam ==
    /\ pc = "remade"
    /\ \E param \in OptionKeys \cup OtherNames :
          read' = [param |-> param,
                   first |-> VPathReadParam(made.path, param),
                   second |-> VPathReadParam(remade.path, param)]
    /\ pc' = "read"
    /\ UNCHANGED <<text, made, str, remade>>
    /\ UNCHANGED <<out, singleton, objs, thr, res>>

Next == MakePath \/ MakeFromText \/ MakeString \/ RemakePath \/ ReadParam

Spec == Init /\ [][Next]_vars

\* the same calls on the URIs made of scheme, host, port, path, query and fragment
InitUri == InitOf(UriTexts)

SpecUri == InitUri /\ [][Next]_vars

\* the same calls on the queries made of elements
InitQuery == InitOf(ElemQueryTexts)

SpecQuery == InitQuery /\ [][Next]_vars

\* ------------------------------------------------------------------------
\* the accessors called with buffers of every size up to MaxBuffer

MaxBuffer == 10

\* a buffer every text read here fits into
BigBuffer == 64

BufTexts ==
    { <<"h", "t", "t", "p", ":", "/", "/", "h", "/", "x">>,
      <<"h", "t", "t", "p", ":", "/", "/", "u", "@", "h", ":", "8", "0", "/", "x", "?", "a", "=", "1", "#", "f">>,
      <<"n", "c", "b", "i", "-", "a", "c", "c", ":", "S", "R", "R", "0", "0", "1", "6", "5", "6">>,
      <<"n", "c", "b", "i", "-", "f", "i", "l", "e", ":", "a">>,
      <<"n", "c", "b", "i", "-", "f", "i", "l", "e", ":", "/", "a", "/", "b", "?", "e", "n", "c", "#", "f">>,
      <<"/", "a", "/", "b", ".", "c">>,
      <<"x", "?", "a", "=", "1", "&", "b">>,
      <<"f", "t", "p", ":", "/", "/", "1", ".", "2", ".", "3", ".", "4", ":", "2", "1", "/", "d">>,
      <<"S", "R", "R", "0", "0", "1", "6", "5", "6">>,
      <<"h", "t", "t", "p", ":", "/", "/", "h", ":", "p">> }

InitBuf == InitOf(BufTexts)

\* one of the accessors reads the path made into a buffer of size bytes
ReadBuf ==
    /\ pc = "made"
    /\ made.rc = rcOK
    /\ \E kind \in Accessors, size \in 0..MaxBuffer :
       \E param \in (IF kind = "ReadParam" THEN {<<"a">>, <<"b">>, <<"z">>} ELSE {<<>>}) :
          out' = [called |-> TRUE, kind |-> kind, param |-> param, size |-> size,
                  ret |-> Accessor(kind, made.path, param, size),
                  full |-> Accessor(kind, made.path, param, BigBuffer)]
    /\ pc' = "read"
    /\ UNCHANGED <<text, made, str, remade, read>>
    /\ UNCHANGED <<singleton, objs, thr, res>>

NextBuf == MakePath \/ MakeFromText \/ ReadBuf

SpecBuf == InitBuf /\ [][NextBuf]_vars

\* ------------------------------------------------------------------------
\* the manager: the static slot "singleton", the instances allocated so far
\* (objs [ i ]: the refcount of instance i and whether it was freed; 0 is
\* NULL), and the threads calling VFSManagerMake and VFSManagerRelease

MaxObjs == 3
MaxHeld == 2

\* KRefcountAdd and KRefcountDrop by the count they find
KRefcountAdd(prior) ==
    IF prior < 0 THEN "krefNegative" ELSE IF prior = 0 THEN "krefZero" ELSE "krefOkay"

KRefcountDrop(prior) ==
    IF prior <= 0 THEN "krefNegative" ELSE IF prior = 1 THEN "krefWhack" ELSE "krefOkay"

\* VFSManagerAddRef leaving the count as it was
VFSManagerAddRef_none(os, self) == [rc |-> rcOK, objs |-> os]

\* VFSManagerAddRef ( self ) on an instance not freed: [rc, objs]
VFSManagerAddRef(os, self) ==
    IF self = 0 THEN [rc |-> rcOK, objs |-> os]
    ELSE CASE KRefcountAdd(os[self].refcount) = "krefOkay" ->
                [rc |-> rcOK, objs |-> [os EXCEPT ![self].refcount = @ + 1]]
           [] KRefcountAdd(os[self].refcount) = "krefZero" ->
                [rc |-> RC("rcRefcount", "rcIncorrect"), objs |-> os]
           [] OTHER -> [rc |-> RC("rcRefcount", "rcInvalid"), objs |-> os]

\* VFSManagerRelease never destroying
VFSManagerRelease_keep(os, self) ==
    IF self = 0 THEN [rc |-> rcOK, objs |-> os, whack |-> FALSE]
    ELSE CASE KRefcountDrop(os[self].refcount) = "krefNegative" ->
                [rc |-> RC("rcRefcount", "rcInvalid"), objs |-> os, whack |-> FALSE]
           [] OTHER -> [rc |-> rcOK, objs |-> [os EXCEPT ![self].refcount = @ - 1], whack |-> FALSE]

\* VFSManagerRelease ( self ) on an instance not freed, up to the call of
\* VFSManagerDestroy: [rc, objs, whack]
VFSManagerRelease(os, self) ==
    IF self = 0 THEN [rc |-> rcOK, objs |-> os, whack |-> FALSE]
    ELSE CASE KRefcountDrop(os[self].refcount) = "krefOkay" ->
                [rc |-> rcOK, objs |-> [os EXCEPT ![self].refcount = @ - 1], whack |-> FALSE]
           [] KRefcountDrop(os[self].refcount) = "krefWhack" ->
                [rc |-> rcOK, objs |-> [os EXCEPT ![self].refcount = @ - 1], whack |-> TRUE]
           [] OTHER -> [rc |-> RC("rcRefcount", "rcInvalid"), objs |-> os, whack |-> FALSE]

\* the sequence s without its element at i
Without(s, i) == SubSeq(s, 1, i - 1) \o SubSeq(s, i + 1, Len(s))

Idle(t) == thr[t].active /\ thr[t].pc = "idle"

\* VFSManagerMakeFromKfg, "* pmanager = singleton"
MkBegin(t) ==
    /\ Idle(t)
    /\ Len(thr[t].held) < MaxHeld
    /\ thr' = [thr EXCEPT ![t].pm = singleton, ![t].pc = "mk_test", ![t].obj = 0, ![t].rc = rcOK]
    /\ UNCHANGED <<singleton, objs>>
    /\ UNCHANGED <<text, pc, made, str, remade, read, out, res>>

\* "if ( singleton != NULL )"
MkTest(t) ==
    /\ thr[t].pc = "mk_test"
    /\ thr' = [thr EXCEPT ![t].pc = IF singleton # 0 THEN "mk_addref" ELSE "mk_alloc"]
    /\ UNCHANGED <<singleton, objs>>
    /\ UNCHANGED <<text, pc, made, str, remade, read, out, res>>

\* "rc = VFSManagerAddRef ( singleton ); if ( rc != 0 ) * pmanager = NULL;"
\* and the return; counting on freed memory may give any result
MkAddRef(t) ==
    /\ thr[t].pc = "mk_addref"
    /\ IF singleton # 0 /\ objs[singleton].freed
       THEN /\ \E rc \in {rcOK, RC("rcRefcount", "rcInvalid")} :
                 thr' = [thr EXCEPT ![t].pc = "idle", ![t].rc = rc, ![t].uaf = TRUE,
                                    ![t].pm = IF rc = rcOK THEN @ ELSE 0,
                                    ![t].held = IF rc = rcOK /\ thr[t].pm # 0
                                                THEN Append(@, thr[t].pm) ELSE @]
            /\ objs' = objs
       ELSE LET r == VFSManagerAddRef(objs, singleton)
            IN  /\ objs' = r.objs
                /\ thr' = [thr EXCEPT ![t].pc = "idle", ![t].rc = r.rc,
                                      ![t].pm = IF r.rc = rcOK THEN @ ELSE 0,
                                      ![t].held = IF r.rc = rcOK /\ thr[t].pm # 0
                                                  THEN Append(@, thr[t].pm) ELSE @]
    /\ UNCHANGED singleton
    /\ UNCHANGED <<text, pc, made, str, remade, read, out, res>>

\* calloc, KRefcountInit ( & obj -> refcount, 1, ... ) and the makers of the
\* parts: out of memory, a part that fails, or all of them made
MkAlloc(t) ==
    /\ thr[t].pc = "mk_alloc"
    /\ \/ /\ thr' = [thr EXCEPT ![t].pc = "idle", ![t].rc = RC("rcMemory", "rcExhausted")]
          /\ objs' = objs
       \/ /\ Len(objs) < MaxObjs
          /\ objs' = Append(objs, [refcount |-> 1, freed |-> FALSE])
          /\ \E built \in BOOLEAN :
                thr' = [thr EXCEPT ![t].obj = Len(objs) + 1,
                                   ![t].pc = IF built THEN "mk_built" ELSE "destroy",
                                   ![t].rc = IF built THEN rcOK ELSE RC("rcPart", "rcFailed")]
    /\ UNCHANGED singleton
    /\ UNCHANGED <<text, pc, made, str, remade, read, out, res>>

\* "* pmanager = singleton = obj; return rc;"
MkPublish(t) ==
    /\ thr[t].pc = "mk_built"
    /\ singleton' = thr[t].obj
    /\ thr' = [thr EXCEPT ![t].pm = thr[t].obj, ![t].pc = "idle",
                          ![t].held = Append(@, thr[t].obj)]
    /\ UNCHANGED objs
    /\ UNCHANGED <<text, pc, made, str, remade, read, out, res>>

\* VFSManagerRelease ( self ) with a reference the thread holds, up to the
\* call of VFSManagerDestroy; counting on freed memory may give any result
RlDrop(t) ==
    /\ Idle(t)
    /\ \E i \in DOMAIN thr[t].held :
          LET self == thr[t].held[i]
          IN  IF objs[self].freed
              THEN /\ \E rc \in {rcOK, RC("rcRefcount", "rcInvalid")} :
                        thr' = [thr EXCEPT ![t].held = Without(@, i), ![t].rc = rc,
                                           ![t].uaf = TRUE]
                   /\ objs' = objs
              ELSE LET r == VFSManagerRelease(objs, self)
                   IN  /\ objs' = r.objs
                       /\ thr' = [thr EXCEPT ![t].held = Without(@, i), ![t].rc = r.rc,
                                             ![t].obj = self,
                                             ![t].pc = IF r.whack THEN "destroy" ELSE "idle"]
    /\ UNCHANGED singleton
    /\ UNCHANGED <<text, pc, made, str, remade, read, out, res>>

\* VFSManagerDestroy ( obj ) up to "free ( self )"
Destroy(t) ==
    /\ thr[t].pc = "destroy"
    /\ objs' = [objs EXCEPT ![thr[t].obj].freed = TRUE]
    /\ thr' = [thr EXCEPT ![t].pc = "clear"]
    /\ UNCHANGED singleton
    /\ UNCHANGED <<text, pc, made, str, remade, read, out, res>>

\* VFSManagerDestroy, "singleton = NULL"
Clear(t) ==
    /\ thr[t].pc = "clear"
    /\ singleton' = 0
    /\ thr' = [thr EXCEPT ![t].pc = "idle"]
    /\ UNCHANGED objs
    /\ UNCHANGED <<text, pc, made, str, remade, read, out, res>>

InitMgr(active) ==
    /\ text = <<>>
    /\ pc = "manager"
    /\ made = NoPath
    /\ str = NoString
    /\ remade = NoPath
    /\ read = NoRead
    /\ out = NoOut
    /\ singleton = 0
    /\ objs = <<>>
    /\ thr = [t \in Threads |-> [NoThread EXCEPT !.active = t \in active]]
    /\ res = NoRes

NextMgr ==
    \E t \in Threads :
       MkBegin(t) \/ MkTest(t) \/ MkAddRef(t) \/ MkAlloc(t) \/ MkPublish(t)
       \/ RlDrop(t) \/ Destroy(t) \/ Clear(t)

\* one thread calls the manager
SpecMgr == InitMgr({1}) /\ [][NextMgr]_vars

\* two threads call the manager, nothing ordering their calls
SpecThreads == InitMgr(Threads) /\ [][NextMgr]_vars

\* ------------------------------------------------------------------------
\* the resolution of a path: VFSManagerResolvePath with a resolver whose
\* answers, and a base directory whose answer, are given

\* the bits of flags; vfsmgr_rflag_no_acc is the two no_acc bits together
Flags == {"no_acc_local", "no_acc_remote", "kdb_acc"}

rcNotFound == RC("rcName", "rcNotFound")
rcOther == RC("rcConnection", "rcFailed")

\* what VResolverLocal and VResolverRemote may answer
OracleRcs == {rcOK, rcNotFound, rcOther}

\* LegacyVPathGetUri_t ( self ) of a valid path
VPathGetUri_t(self) == IF ~self.from_uri THEN "vpuri_none" ELSE self.scheme_type

\* VFSManagerResolvePathResolver: [rc, out, calls]; out names the path left
\* in * out_path, calls the resolver functions called, in order
VFSManagerResolvePathResolver(flags, local, remote) ==
    IF {"no_acc_local", "no_acc_remote"} \subseteq flags
    THEN [rc |-> RC("rcSRA", "rcNotAvailable"), out |-> "NULL", calls |-> <<>>]
    ELSE LET do_local == "no_acc_local" \notin flags
             not_done == ~(do_local /\ local = rcOK)
             do_remote == not_done /\ "no_acc_remote" \notin flags
         IN  [rc |-> IF do_remote THEN remote ELSE IF do_local THEN local ELSE rcOK,
              out |-> IF do_remote THEN (IF remote = rcOK THEN "remote" ELSE "NULL")
                      ELSE IF do_local /\ local = rcOK THEN "local" ELSE "NULL",
              calls |-> (IF do_local THEN <<"Local">> ELSE <<>>)
                        \o (IF do_remote THEN <<"Remote(http)">> ELSE <<>>)]

\* the cases vpuri_ncbi_vfs and vpuri_file of VFSManagerResolvePathInt, which
\* vpuri_none falls into: dir is the answer of KDirectoryResolvePath, mk that
\* of VPathMake on the buffer u
ResolveFilePath(uri_type, in_path, dir, mk, calls) ==
    IF Len(in_path.path) # 0 /\ in_path.path[1] = "/"
    THEN [rc |-> rcOK, out |-> "in_path", calls |-> calls]
    ELSE IF uri_type \in {"vpuri_ncbi_vfs", "vpuri_ncbi_file"}
    THEN LET rc == IF dir # rcOK THEN dir ELSE mk
         IN  [rc |-> rc, out |-> IF rc = rcOK THEN "made" ELSE "NULL", calls |-> calls]
    \* "rc = KDirectoryResolvePath ( ... ); rc = VPathMake ( & v, u );"
    ELSE [rc |-> mk,
          out |-> IF mk # rcOK THEN "NULL" ELSE IF dir = rcOK THEN "made" ELSE "made from u unresolved",
          calls |-> calls]

\* VFSManagerResolvePathInt: [rc, out, calls]
VFSManagerResolvePathInt(flags, in_path, local, remote, dir, mk) ==
    LET uri_type == VPathGetUri_t(in_path)
        acc == VFSManagerResolvePathResolver(flags, local, remote)
    IN  CASE uri_type \in {"vpuri_not_supported", "vpuri_ncbi_legrefseq"} ->
                [rc |-> RC("rcPath", "rcUnsupported"), out |-> "NULL", calls |-> <<>>]
          [] uri_type = "vpuri_ncbi_acc" -> acc
          [] uri_type = "vpuri_none" ->
                IF "kdb_acc" \in flags /\ string_chr(in_path.path, "/") = -1 /\ acc.rc = rcOK
                THEN acc
                ELSE ResolveFilePath(uri_type, in_path, dir, mk,
                        IF "kdb_acc" \in flags /\ string_chr(in_path.path, "/") = -1
                        THEN acc.calls ELSE <<>>)
          [] uri_type \in {"vpuri_ncbi_vfs", "vpuri_ncbi_file", "vpuri_file"} ->
                ResolveFilePath(uri_type, in_path, dir, mk, <<>>)
          [] uri_type \in {"vpuri_http", "vpuri_ftp"} ->
                [rc |-> rcOK, out |-> "in_path", calls |-> <<>>]
          [] OTHER -> [rc |-> RC("rcPath", "rcInvalid"), out |-> "NULL", calls |-> <<>>]

\* VFSManagerResolvePath with self and out_path non-NULL
VFSManagerResolvePath(flags, in_path, local, remote, dir, mk) ==
    IF in_path = NULL THEN [rc |-> RC("rcParam", "rcNull"), out |-> "NULL", calls |-> <<>>]
    ELSE VFSManagerResolvePathInt(flags, in_path, local, remote, dir, mk)

ResTexts ==
    { <<"n", "c", "b", "i", "-", "a", "c", "c", ":", "S", "R", "R", "0", "0", "1", "6", "5", "6">>, <<"S", "R", "R", "0", "0", "1", "6", "5", "6">>, <<"n", "c", "b", "i", "-", "a", "c", "c", ":", "S", "R", "R", "0", "0", "1", "6", "5", "6", ".", "1">>, <<"a", "/", "b">>, <<"/", "a", "/", "b">>, <<"f", "i", "l", "e", ":", "a">>,
      <<"f", "i", "l", "e", ":", "/", "a">>, <<"n", "c", "b", "i", "-", "f", "i", "l", "e", ":", "a", "/", "b">>, <<"h", "t", "t", "p", ":", "/", "/", "h", "/", "x">>, <<"f", "t", "p", ":", "/", "/", "h", "/", "x">>, <<"f", "a", "s", "p", ":", "/", "/", "h", "/", "x">>, <<"x", "-", "y", ":", "z">>,
      <<"n", "c", "b", "i", "-", "o", "b", "j", ":", "1", "2">>, <<"h", "t", "t", "p", "s", ":", "/", "/", "h", "/", "x">> }

InitRes == InitOf(ResTexts)

\* VFSManagerResolvePath ( mgr, flags, made, & out_path )
ResolvePath ==
    /\ pc = "made"
    /\ made.rc = rcOK
    /\ \E flags \in SUBSET Flags, local \in OracleRcs, remote \in OracleRcs,
          dir \in {rcOK, rcOther}, mk \in {rcOK, rcOther} :
          res' = [called |-> TRUE, flags |-> flags, local |-> local, remote |-> remote,
                  dir |-> dir, mk |-> mk,
                  ret |-> VFSManagerResolvePath(flags, made.path, local, remote, dir, mk)]
    /\ pc' = "resolved"
    /\ UNCHANGED <<text, made, str, remade, read>>
    /\ UNCHANGED <<out, singleton, objs, thr>>

NextRes == MakePath \/ ResolvePath

SpecRes == InitRes /\ [][NextRes]_vars

\* ------------------------------------------------------------------------
\* the properties

Lower(s) == [k \in DOMAIN s |-> tolower(s[k])]

\* what a parse classifies a path to
Class(p) == <<p.scheme_type, p.path_type, p.acc_code>>

Accepted(m) == m.rc = rcOK

\* C1: for every text the parser accepts, parsing the output of
\* VPathMakeString succeeds and classifies to the same
\* (scheme_type, path_type, acc_code)
C1_RoundTripKeepsClass ==
    /\ pc = "stringed" => str.rc = rcOK
    /\ pc = "remade" => Accepted(remade) /\ Class(remade.path) = Class(made.path)

\* C2: for every option key, VPathReadParam returns the same result on a path
\* and on the path parsed from its VPathMakeString output
C2_RoundTripKeepsParams ==
    pc = "read" => read.first = read.second

\* the text before the first ':' and the text from it on
SchemeOf(t) == SubSeq(t, 1, string_chr(t, ":"))
AfterScheme(t) == SubSeq(t, string_chr(t, ":") + 1, Len(t))

\* a letter followed by letters, digits, '+', '-' and '.'
IsScheme(s) ==
    /\ Len(s) > 0
    /\ isalpha(s[1])
    /\ \A k \in DOMAIN s : isalnum(s[k]) \/ s[k] \in {"+", "-", "."}

\* the scheme type the specification gives a scheme
SpecSchemeType(s) ==
    CASE Lower(s) = S_file -> "vpuri_file"
      [] Lower(s) = S_http -> "vpuri_http"
      [] Lower(s) = S_https -> "vpuri_https"
      [] Lower(s) = S_ftp -> "vpuri_ftp"
      [] Lower(s) = S_fasp -> "vpuri_fasp"
      [] Lower(s) = S_ncbi_acc -> "vpuri_ncbi_acc"
      [] Lower(s) = S_ncbi_obj -> "vpuri_ncbi_obj"
      [] Lower(s) = S_ncbi_file -> "vpuri_ncbi_file"
      [] Lower(s) = S_ncbi_vfs -> "vpuri_ncbi_vfs"
      [] Lower(s) = S_x_ncbi_legrefseq -> "vpuri_ncbi_legrefseq"
      [] OTHER -> "vpuri_not_supported"

C3Holds(t, m) ==
    IsScheme(SchemeOf(t)) =>
        /\ AfterScheme(t) = <<":", "/", "x">> => Accepted(m)
        /\ Accepted(m) => m.path.scheme_type = SpecSchemeType(SchemeOf(t))

\* C3: each of the ten schemes is recognized whatever its letter case, every
\* other valid scheme is vpuri_not_supported, and the parse still succeeds
C3_SchemesRecognized ==
    pc = "made" => C3Holds(text, made)

SRR001656 == <<"S", "R", "R", "0", "0", "1", "6", "5", "6">>

\* C4 as stated: "SRR001656" gives scheme none, Accession, acc_code 0x03060
C4_AsStated ==
    pc = "made" /\ text = SRR001656 =>
        /\ Accepted(made)
        /\ Class(made.path) = <<"vpuri_none", "vpAccession", 3 * 4096 + 0 * 256 + 6 * 16>>

\* C4: "SRR001656" gives scheme none, NameOrAccession, acc_code 0x03600
C4_SRR001656 ==
    pc = "made" /\ text = SRR001656 =>
        /\ Accepted(made)
        /\ Class(made.path) = <<"vpuri_none", "vpNameOrAccession", 3 * 4096 + 6 * 256 + 0 * 16>>

C4_Witness ==
    pc = "made" /\ text = SRR001656 /\ Accepted(made) /\ made.path.path = SRR001656

\* how many leading characters of s satisfy the test
Leading(s, Test(_)) == Cardinality({k \in DOMAIN s : \A j \in 1..k : Test(s[j])})

HowMany(s, c) == Cardinality({k \in DOMAIN s : s[k] = c})

\* the segments of a text [letters _] letters digits [. digits]* [_ letters],
\* counted: letters and digits one by one, the prefix, each extension and
\* the suffix once
SegmentCounts(t) ==
    LET first == Leading(t, isalpha)
        prefix == IF first > 0 /\ first < Len(t) /\ t[first + 1] = "_" THEN 1 ELSE 0
        body == SubSeq(t, prefix * (first + 1) + 1, Len(t))
        alpha == Leading(body, isalpha)
        digit == Leading(SubSeq(body, alpha + 1, Len(body)), isdigit)
    IN  [prefix |-> prefix, alpha |-> alpha, digit |-> digit,
         ext |-> HowMany(body, "."), suffix |-> HowMany(body, "_")]

AccessionShaped(m) ==
    Accepted(m) /\ m.path.path_type \in {"vpNameOrAccession", "vpAccession"}

C5Holds(t, m) ==
    AccessionShaped(m) =>
        LET c == SegmentCounts(t)
            code == m.path.acc_code
        IN  /\ code < 2^20
            /\ code \div 65536 = c.prefix
            /\ (code \div 4096) % 16 = c.alpha
            /\ (code \div 256) % 16 = c.digit
            /\ (code \div 16) % 16 = c.ext
            /\ code % 16 = c.suffix

\* C5: acc_code is 20 bits, each field exactly the count of its segment: no
\* count spills into another field, no two tuples give one code
C5_AccCodeIsTheCounts ==
    pc = "made" /\ text \in AccTexts => C5Holds(text, made)

\* the table of the specification, and the shapes the code adds to it
SpecShapes ==
    { Hex3(0, 1, 5), Hex3(0, 2, 6), Hex3(1, 0, 6), Hex3(1, 2, 6), Hex3(1, 0, 9),
      Hex3(1, 4, 2), Hex3(1, 4, 8), Hex3(1, 4, 9) }
WgsShapes == { Hex3(0, 4, 2), Hex3(0, 4, 8), Hex3(0, 4, 9) }

IsNA(m) ==
    /\ m.path.acc_code = 2 * 4096 + 9 * 256 + 16
    /\ SubSeq(m.path.path, 1, 2) = <<"N", "A">>

C6Holds(m, shapes) ==
    AccessionShaped(m) /\ m.path.scheme_type = "vpuri_none" =>
        (m.path.path_type = "vpAccession"
            <=> (m.path.acc_code \div 256) \in shapes \/ IsNA(m))

\* C6 as stated: upgraded to Accession exactly for the eight shapes and NA
C6_AsStated ==
    pc = "made" => C6Holds(made, SpecShapes)

\* C6: upgraded to Accession exactly for the eight shapes, the three wgs
\* shapes 0x042, 0x048, 0x049, and NA
C6_UpgradeTable ==
    pc = "made" => C6Holds(made, SpecShapes \cup WgsShapes)

C6_Witness ==
    /\ pc = "made"
    /\ text = <<"A", "A", "A", "A", "1", "1">>
    /\ Accepted(made)
    /\ Class(made.path) = <<"vpuri_none", "vpAccession", 4 * 4096 + 2 * 256>>

\* the digits of an object id text
OidDigits(t) == SubSeq(AfterScheme(t), 2, Len(AfterScheme(t)))

\* a decimal numeral without its leading zeros
RECURSIVE Strip(_)
Strip(d) == IF Len(d) > 0 /\ d[1] = "0" THEN Strip(Tail(d)) ELSE d

\* a <= b for numerals of the same length
RECURSIVE LexLE(_, _)
LexLE(a, b) ==
    \/ Len(a) = 0
    \/ DigitVal(a[1]) < DigitVal(b[1])
    \/ a[1] = b[1] /\ LexLE(Tail(a), Tail(b))

\* a <= b for numerals without leading zeros
DecLE(a, b) == Len(a) < Len(b) \/ (Len(a) = Len(b) /\ LexLE(a, b))

TwoTo32 == <<"4", "2", "9", "4", "9", "6", "7", "2", "9", "6">>

C7Holds(t, m) ==
    LET d == OidDigits(t)
        numeral == IF Strip(d) = <<>> THEN <<"0">> ELSE Strip(d)
    IN  Len(d) > 0 =>
        /\ Accepted(m)
        /\ Len(d) <= 10 /\ DecLE(numeral, TwoTo32) =>
              m.path.path_type = "vpOID" /\ U32Dec(m.path.obj_id) = numeral
        /\ Len(d) > 10 => m.path.path_type = "vpName"

\* C7: "ncbi-obj:" and digits is an OID with obj_id the value when the digits
\* are at most 10 and the value at most 2^32; more than 10 digits are a Name
C7_ObjectIds ==
    pc = "made" /\ text \in OidTexts => C7Holds(text, made)

C8Holds(t, m) ==
    /\ m.parsed /\ t = <<>> => m.rc = RC("rcString", "rcEmpty")
    /\ ~Accepted(m) => m.path = NULL

\* C8: parsing the empty string fails with (rcString, rcEmpty), and no
\* failure produces a path: the output is NULL
C8_FailureLeavesNoPath ==
    /\ pc # "start" => C8Holds(text, made)
    /\ pc \in {"remade", "read"} => C8Holds(str.str, remade)

C8_Witness ==
    /\ pc = "made"
    /\ text = <<>>
    /\ made = [rc |-> RC("rcString", "rcEmpty"), path |-> NULL, parsed |-> TRUE]

Truncated == { <<":">>, <<":", "/">>, <<":", "/", "/">> }

C9Holds(t, m, exempt) ==
    m.parsed /\ IsScheme(SchemeOf(t)) /\ AfterScheme(t) \in Truncated /\ t \notin exempt =>
        m.rc = RC("rcData", "rcInsufficient")

\* C9 as stated: every scheme followed by ":", ":/" or "://" and nothing
\* more is rejected with (rcData, rcInsufficient)
C9_AsStated ==
    pc = "made" => C9Holds(text, made, {})

NcbiFileSlashSlash == { s \o <<":", "/", "/">> : s \in {S_ncbi_file, Upper(S_ncbi_file), Capital(S_ncbi_file)} }

\* C9: every scheme followed by ":", ":/" or "://" and nothing more is
\* rejected with (rcData, rcInsufficient), except "ncbi-file://", which is
\* the full path "//"
C9_TruncatedRejected ==
    /\ pc = "made" => C9Holds(text, made, NcbiFileSlashSlash)
    /\ pc = "made" /\ made.parsed /\ text \in NcbiFileSlashSlash =>
          /\ Accepted(made)
          /\ made.path.path_type = "vpFullPath"
          /\ made.path.path = <<"/", "/">>

C9_Witness ==
    /\ pc = "made"
    /\ text = S_http \o <<":", "/", "/">>
    /\ made = [rc |-> RC("rcData", "rcInsufficient"), path |-> NULL, parsed |-> TRUE]

\* the octets of an IPv4 address: uint32_t ipv4 [ 4 ]
IPv4Octets == 4

BigOctets == {<<"2", "5", "6">>, <<"1", "0", "0", "0">>}
BigGroups == {<<"1", "0", "0", "0", "0">>}

\* URLs well formed up to an octet above 255, a group above 0xFFFF or a port
\* above 65535: the value the last of the text, or more text after it
OversizedUrls ==
    { S_http \o <<":", "/", "/">> \o h : h \in IPv4With(BigOctets) \cup {<<"[", "f", "f", "f", "f", "f">>, <<"[", "2", ":", "f", "f", "f", "f", "f">>} }
    \cup { S_http \o <<":", "/", "/">> \o h \o pt \o pa :
             h \in IPv4Of(IPv4Octets, BigOctets) \cup IPv6With(BigGroups),
             pt \in PortTexts, pa \in PathTexts }
    \cup { S_http \o <<":", "/", "/">> \o h \o <<":", "6", "5", "5", "3", "6">> \o pa :
             h \in {<<"h">>} \cup IPv4Of(IPv4Octets, {<<"1">>, <<"2", "5", "5">>}) \cup IPv6With({<<"1">>, <<"f", "f", "f", "f">>}),
             pa \in PathTexts }

C10Holds(t, m) ==
    m.parsed /\ t \in OversizedUrls => m.rc = RC("rcData", "rcExcessive")

\* C10: an IPv4 octet above 255, an IPv6 group above 0xFFFF and a port above
\* 65535 are rejected with (rcData, rcExcessive) wherever they stand and
\* whatever follows
C10_OversizedRejected ==
    pc = "made" => C10Holds(text, made)

\* C11: the authority "[::1]:80" gives an IPv6 host with the eight groups
\* 0,0,0,0,0,0,0,1 and port_num 80: "::" stands for the zero groups
C11_DoubleColonExpanded ==
    pc = "made" /\ text = <<"h", "t", "t", "p", ":", "/", "/", "[", ":", ":", "1", "]", ":", "8", "0">> =>
        /\ Accepted(made)
        /\ made.path.host_type = "vhIPv6"
        /\ made.path.ipv6 = <<0, 0, 0, 0, 0, 0, 0, 1>>
        /\ made.path.portnum = 80

\* the parts of the URI the text is
C12Parts(t, schemes) == { u \in UriParts(schemes) : UriText(u) = t }

C12Holds(t, m, schemes) ==
    \A u \in C12Parts(t, schemes) :
        /\ Accepted(m)
        /\ m.path.host = u.host
        /\ m.path.portnum > 0 /\ DecDigits(m.path.portnum) = u.port
        /\ m.path.query = u.query
        /\ m.path.fragment = u.fragment
        /\ \A fill \in StackBytes : VPathMakeString(m.path, fill) = [rc |-> rcOK, str |-> t]

IPHost(p) == p.host_type \in {"vhIPv4", "vhIPv6"}

\* C13: for every accepted URI with an IPv4 or IPv6 host, parsing the text
\* VPathMakeString gives succeeds and yields the same ipv4 value and the same
\* eight ipv6 groups
C13_HostRoundTrip ==
    pc = "remade" /\ IPHost(made.path) =>
        /\ Accepted(remade)
        /\ remade.path.host_type = made.path.host_type
        /\ remade.path.ipv4 = made.path.ipv4
        /\ remade.path.ipv6 = made.path.ipv6

\* the scheme the specification gives a path without scheme text
SpecSynthesized(p) ==
    IF Len(p.scheme) # 0 THEN p.scheme
    ELSE CASE p.path_type = "vpOID" -> S_ncbi_obj
           [] p.path_type = "vpAccession" -> S_ncbi_acc
           [] OTHER -> IF Len(p.query) # 0 \/ Len(p.fragment) # 0 THEN S_ncbi_file ELSE S_file

IsPrefix(a, b) == Len(a) <= Len(b) /\ SubSeq(b, 1, Len(a)) = a
IsSuffix(a, b) == Len(a) <= Len(b) /\ SubSeq(b, Len(b) - Len(a) + 1, Len(b)) = a

Native(p) == ~p.from_uri /\ Len(p.query) = 0 /\ Len(p.fragment) = 0

C14Holds(p, s) ==
    /\ s.rc = rcOK
    /\ Native(p) => s.str = p.path
    /\ ~Native(p) =>
          /\ IsPrefix(SpecSynthesized(p) \o <<":">>, s.str)
          /\ p.path_type \notin {"vpOID", "vpHostName", "vpEndpoint"} =>
                IsSuffix(p.path \o p.query \o p.fragment, s.str)

RECURSIVE Split(_, _)
Split(s, sep) ==
    IF string_chr(s, sep) = -1 THEN <<s>>
    ELSE <<SubSeq(s, 1, string_chr(s, sep))>> \o Split(SubSeq(s, string_chr(s, sep) + 2, Len(s)), sep)

ElemKey(e) == IF string_chr(e, "=") = -1 THEN e ELSE SubSeq(e, 1, string_chr(e, "="))
ElemValue(e) == IF string_chr(e, "=") = -1 THEN <<>> ELSE SubSeq(e, string_chr(e, "=") + 2, Len(e))

\* the reference lookup: the value of the first element of the query whose
\* key is the name up to letter case
RefLookup(query, name) ==
    LET elems == IF Len(query) = 0 THEN <<>> ELSE Split(Tail(query), "&")
        hits == { k \in DOMAIN elems : Lower(ElemKey(elems[k])) = Lower(name) }
    IN  IF hits = {} THEN [rc |-> RC("rcParam", "rcNotFound"), val |-> <<>>]
        ELSE [rc |-> rcOK, val |-> ElemValue(elems[CHOOSE k \in hits : \A j \in hits : k <= j])]

C15Holds(p, name, r) == p # NULL => r = RefLookup(p.query, name)

\* C15 as stated: VPathReadParam of a name without '&' and '=' is the
\* reference lookup on the query: the value of the first element whose key
\* is the name up to letter case, empty without '=', and not found when no
\* key is the name
C15_AsStated ==
    pc = "read" =>
        /\ C15Holds(made.path, read.param, read.first)
        /\ C15Holds(remade.path, read.param, read.second)

\* C15: the same for every name that is not empty; the empty name is
\* refused with (rcParam, rcEmpty) whatever the query
C15_ReadParamIsLookup ==
    /\ pc = "read" /\ Len(read.param) # 0 =>
          /\ C15Holds(made.path, read.param, read.first)
          /\ C15Holds(remade.path, read.param, read.second)
    /\ pc = "read" /\ Len(read.param) = 0 =>
          /\ read.first = [rc |-> RC("rcParam", "rcEmpty"), val |-> <<>>]
          /\ remade.path # NULL => read.second = read.first

C15_Witness ==
    /\ pc = "read"
    /\ text = <<"h", "t", "t", "p", ":", "/", "/", "h", "/", "x", "?", "x", "a", "=", "a", "&", "A", "B", "=", "a", "b">>
    /\ read.param = <<"a", "b">>
    /\ read.first = [rc |-> rcOK, val |-> <<"a", "b">>]

\* the buffer of a read is too small: the text the accessor gives with room
\* enough, and its NUL, do not fit
TooSmall(o) == o.full.rc = rcOK /\ Len(o.full.text) # 0 /\ o.size <= Len(o.full.text)

\* C16: whenever the caller's buffer is too small, each of the nine Read
\* accessors returns (rcBuffer, rcInsufficient) and num_read = 0
C16_TooSmallInsufficient ==
    (out.called /\ TooSmall(out))
        => /\ out.ret.rc = RC("rcBuffer", "rcInsufficient")
           /\ out.ret.num_read = 0

\* ------------------------------------------------------------------------
\* the manager's properties

Live(i) == ~objs[i].freed

LiveObjs == {i \in DOMAIN objs : Live(i)}

\* no call of the manager is under way
AllIdle == \A t \in Threads : thr[t].pc = "idle"

\* thread t returns from VFSManagerMake with rc = 0 in this step
MakeReturns(t) ==
    /\ thr[t].pc \in {"mk_addref", "mk_built"}
    /\ thr'[t].pc = "idle"
    /\ thr'[t].rc = rcOK

C17State ==
    AllIdle =>
        /\ Cardinality(LiveObjs) <= 1
        /\ (singleton # 0) <=> (LiveObjs # {})
        /\ singleton # 0 => singleton \in LiveObjs

C17Step ==
    \A t \in Threads :
       MakeReturns(t) =>
          \A i \in LiveObjs :
             i # thr[t].obj =>
                /\ thr'[t].pm = i
                /\ objs' = [objs EXCEPT ![i].refcount = @ + 1]
                /\ singleton' = i

\* C17: after any sequence of VFSManagerMake and VFSManagerRelease calls of
\* one thread at most one instance is live, the static slot points to the
\* live instance exactly while one exists, and every successful Make while
\* an instance is live returns that instance and raises its reference count
\* by exactly one
C17_OneInstance == [](C17State) /\ [][C17Step]_vars

\* one thread made an instance, released it, made another and made it again
C17_Witness ==
    /\ ~thr[2].active
    /\ AllIdle
    /\ Len(objs) = 2
    /\ singleton = 2
    /\ thr[1].held = <<2, 2>>
    /\ thr[1].pm = 2
    /\ objs[2].refcount = 2
    /\ objs[1].freed

\* how many references to instance i the threads hold
RECURSIVE Count(_, _)
Count(s, i) == IF Len(s) = 0 THEN 0 ELSE (IF s[1] = i THEN 1 ELSE 0) + Count(Tail(s), i)

Held(i) == Count(thr[1].held, i) + Count(thr[2].held, i)

C18State ==
    AllIdle =>
        \A i \in DOMAIN objs :
           \* destroyed exactly when the last reference is gone
           /\ objs[i].freed <=> Held(i) = 0
           /\ Live(i) => objs[i].refcount = Held(i)
           \* destruction clears the slot
           /\ objs[i].freed => singleton # i

C18Step ==
    \A t \in Threads :
       /\ MakeReturns(t) =>
             \* no Make hands out a destroyed instance
             /\ thr'[t].pm # 0
             /\ ~objs'[thr'[t].pm].freed
             \* a Make after the destruction constructs a fresh instance
             /\ singleton = 0 =>
                   /\ thr'[t].pm = Len(objs')
                   /\ Held(thr'[t].pm) = 0
                   /\ objs'[thr'[t].pm].refcount = 1
                   /\ singleton' = thr'[t].pm
       \* an instance is freed only by the call that dropped its last reference
       /\ (thr[t].pc = "destroy" /\ thr'[t].pc = "clear") =>
             /\ objs[thr[t].obj].refcount = 0 \/ thr[t].rc # rcOK
             /\ Held(thr[t].obj) = 0

\* C18: the manager is destroyed exactly when its last reference is
\* released, the destruction clears the static slot, a Make after it
\* constructs a fresh instance with reference count 1, and no Make hands out
\* a destroyed instance
C18_DestroyedWithLastRelease == [](C18State) /\ [][C18Step]_vars

\* the one instance was destroyed by the release of its second reference and
\* a later Make has constructed another
C18_Witness ==
    /\ ~thr[2].active
    /\ AllIdle
    /\ Len(objs) = 2
    /\ objs[1].freed /\ objs[1].refcount = 0
    /\ singleton = 2
    /\ thr[1].held = <<2>>
    /\ objs[2] = [refcount |-> 1, freed |-> FALSE]
    /\ thr[1].rc = rcOK

C19State ==
    AllIdle =>
        /\ Cardinality(LiveObjs) <= 1
        /\ \A t \in Threads : \A k \in DOMAIN thr[t].held :
              /\ thr[t].held[k] = singleton
              /\ Live(thr[t].held[k])

C19Step ==
    \* no second instance is constructed
    /\ Len(objs') > Len(objs) => LiveObjs = {}
    \* the slot is left alone while a caller holds a reference
    /\ (\E t \in Threads : thr[t].held # <<>>) => singleton' = singleton

\* C19: with two threads calling VFSManagerMake concurrently, while no
\* manager exists or while the other thread releases the last reference,
\* every interleaving ends with a single live instance shared by all
\* callers, no second instance is constructed, and the static slot is never
\* cleared or overwritten while a caller holds a reference
C19_SharedUnderRaces == [](C19State) /\ [][C19Step]_vars

\* an ncbi-acc path was resolved with neither no_acc_local nor no_acc_remote set
C20Case ==
    /\ res.called
    /\ VPathGetUri_t(made.path) = "vpuri_ncbi_acc"
    /\ res.flags \cap {"no_acc_local", "no_acc_remote"} = {}

\* C20: for an ncbi-acc Path with neither no_acc_local nor no_acc_remote
\* set, VFSManagerResolvePath calls Local first, calls Remote (protocol
\* http) only if Local returned rcNotFound, and returns any other error of
\* Local unchanged without calling Remote
C20_RemoteOnlyAfterNotFound ==
    C20Case =>
        /\ res.ret.calls # <<>> /\ res.ret.calls[1] = "Local"
        /\ (\E k \in DOMAIN res.ret.calls : res.ret.calls[k] = "Remote(http)")
              => res.local = rcNotFound
        /\ res.local \notin {rcOK, rcNotFound}
              => res.ret.rc = res.local /\ res.ret.calls = <<"Local">>

\* a relative path of scheme none, file or ncbi-vfs was resolved against the
\* base directory, the resolver not having answered for it
C21Case ==
    /\ res.called
    /\ VPathGetUri_t(made.path) \in {"vpuri_none", "vpuri_file", "vpuri_ncbi_vfs", "vpuri_ncbi_file"}
    /\ ~(Len(made.path.path) # 0 /\ made.path.path[1] = "/")
    /\ res.ret.out \notin {"local", "remote"}

\* C21: for a relative Path with scheme none, file or ncbi-vfs,
\* VFSManagerResolvePath / ResolvePathRelativeDir resolve it against the base
\* directory; if that directory resolution fails, the call returns that
\* error with * out_path = NULL and never builds a Path from the unresolved
\* contents of the buffer
C21_DirFailureReturned ==
    (C21Case /\ res.dir # rcOK) =>
        /\ res.ret.rc = res.dir
        /\ res.ret.out = "NULL"

\* ------------------------------------------------------------------------
\* VFSManagerResolvePathRelative

\* what a store through a NULL out_path may do
NullStores == {"crash", "goes on"}

\* VFSManagerResolvePathRelative ( self, flags, base_path, in_path, out_path ):
\* [rc, crashed, deref, opened, out]; deref tells that the call stored
\* through a NULL out_path, opened that VFSManagerOpenDirectoryRead was
\* called on base_path, whose answer is opendir; ub is what the store through
\* NULL does
VFSManagerResolvePathRelative(self_null, out_null, in_path, opendir, flags, local, remote, dir, mk, ub) ==
    LET Ret(rc, deref, opened, o) ==
            [rc |-> rc, crashed |-> FALSE, deref |-> deref, opened |-> opened, out |-> o]
        Crash(opened) ==
            [rc |-> rcOK, crashed |-> TRUE, deref |-> TRUE, opened |-> opened, out |-> "NULL"]
        \* "rc = VFSManagerResolvePathInt ( self, flags, dir, in_path, out_path )"
        Resolved(r) ==
            IF out_null /\ r.out # "NULL"
            THEN (IF ub = "crash" THEN Crash(TRUE) ELSE Ret(r.rc, TRUE, TRUE, "NULL"))
            ELSE Ret(r.rc, out_null, TRUE, r.out)
    IN  \* "if ( out_path == NULL ) rc = RC ( ... rcParam, rcNull );" and no return
        \* "* out_path = NULL;"
        IF out_null /\ ub = "crash" THEN Crash(FALSE)
        ELSE IF self_null THEN Ret(RC("rcSelf", "rcNull"), out_null, FALSE, "NULL")
        ELSE IF in_path = NULL THEN Ret(RC("rcParam", "rcNull"), out_null, FALSE, "NULL")
        ELSE IF opendir # rcOK THEN Ret(opendir, out_null, TRUE, "NULL")
        ELSE Resolved(VFSManagerResolvePathInt(flags, in_path, local, remote, dir, mk))

\* VFSManagerResolvePathRelative ( mgr, flags, base, made, out_path )
ResolvePathRelative ==
    /\ pc = "made"
    /\ \E self_null \in BOOLEAN, out_null \in BOOLEAN, in_null \in BOOLEAN,
          opendir \in {rcOK, rcOther}, dir \in {rcOK, rcOther}, ub \in NullStores :
          res' = [called |-> TRUE, self_null |-> self_null, out_null |-> out_null,
                  in_null |-> in_null \/ made.rc # rcOK, opendir |-> opendir, dir |-> dir,
                  ret |-> VFSManagerResolvePathRelative(self_null, out_null,
                             IF in_null \/ made.rc # rcOK THEN NULL ELSE made.path,
                             opendir, {}, rcOK, rcOK, dir, rcOK, ub)]
    /\ pc' = "resolved"
    /\ UNCHANGED <<text, made, str, remade, read>>
    /\ UNCHANGED <<out, singleton, objs, thr>>

NextRel == MakePath \/ ResolvePathRelative

SpecRel == InitRes /\ [][NextRel]_vars

\* C22: VFSManagerResolvePathRelative called with out_path == NULL fails
\* fast: it returns a (param, null) error immediately, without dereferencing
\* out_path and without opening the base directory
C22_NullOutPathFailsFast ==
    (res.called /\ res.out_null) =>
        /\ ~res.ret.crashed
        /\ res.ret.rc = RC("rcParam", "rcNull")
        /\ ~res.ret.deref
        /\ ~res.ret.opened


\* ------------------------------------------------------------------------
\* key acquisition: GetEncryptionKey with a keystore, a directory and a
\* descriptor table whose answers are given

S_enc == <<"e", "n", "c">>
S_encrypt == <<"e", "n", "c", "r", "y", "p", "t">>
S_pwfile == <<"p", "w", "f", "i", "l", "e">>

\* VPathOption ( self, option, buffer, ... ) into a buffer large enough:
\* [rc, val]
VPathOption(self, option) ==
    IF VPathReadTestSelf(self) # rcOK THEN [rc |-> VPathReadTestSelf(self), val |-> <<>>]
    ELSE CASE option = "vpopt_encrypted" ->
                IF VPathReadParam(self, S_enc).rc.state = "rcNotFound"
                THEN VPathReadParam(self, S_encrypt)
                ELSE VPathReadParam(self, S_enc)
           [] option = "vpopt_pwpath" -> VPathReadParam(self, S_pwfile)
           [] option = "vpopt_pwfd" -> VPathReadParam(self, S_pwfile)
           [] OTHER -> [rc |-> RC("rcToken", "rcUnrecognized"), val |-> <<>>]

\* atoi of the decimal digits s starts with
RECURSIVE atoi_from(_, _)
atoi_from(s, n) ==
    IF Len(s) = 0 \/ ~isdigit(s[1]) THEN n
    ELSE atoi_from(Tail(s), (n * 10 + DigitVal(s[1])) % 2^16)

atoi(s) == atoi_from(s, 0)

\* the answers of the collaborators of GetEncryptionKey
KeyAnswers ==
    [ open : {rcOK, rcOther},      \* KDirectoryOpenFileRead or KFileMakeFDFileRead
      set : {rcOK, rcOther},       \* KKeyStoreSetTemporaryKeyFromFile ( keystore, pwfile )
      rel : {rcOK, rcOther},       \* KFileRelease ( pwfile )
      get : {rcOK, rcOther},       \* KKeyStoreGetKey
      fits : BOOLEAN,              \* the key is no longer than the buffer
      krel : {rcOK, rcOther},      \* KEncryptionKeyRelease
      clear : {rcOK, rcOther} ]    \* KKeyStoreSetTemporaryKeyFromFile ( keystore, NULL )

KeyAllOK ==
    [open |-> rcOK, set |-> rcOK, rel |-> rcOK, get |-> rcOK, fits |-> TRUE, krel |-> rcOK,
     clear |-> rcOK]

\* the state of a key acquisition: rc, the calls made in order, and what the
\* temporary-key slot of the keystore holds
KeyStart == [rc |-> rcOK, ops |-> <<>>, slot |-> "none", key |-> "none"]

\* KKeyStoreSetTemporaryKeyFromFile ( keystore, file ) answering rc: what the
\* temporary-key slot holds after it; a NULL file empties the slot
KKeyStoreSetTemporaryKeyFromFile(slot, file, rc) ==
    IF file = "NULL" THEN "none" ELSE IF rc = rcOK THEN file ELSE slot

\* KKeyStoreSetTemporaryKeyFromFile ( keystore, pwfile ) and the release of
\* pwfile, after "opener" gave the file "from"
KeySetTemporary(s, opener, from, k) ==
    IF k.open # rcOK THEN [s EXCEPT !.rc = k.open, !.ops = @ \o <<opener>>]
    ELSE [s EXCEPT !.rc = IF k.set # rcOK THEN k.set ELSE k.rel,
                   !.ops = @ \o <<opener, <<"SetTemporaryKey", from>>>>,
                   !.slot = KKeyStoreSetTemporaryKeyFromFile(s.slot, from, k.set)]

\* lines 377-406: the pwfile option of the path
KeyFromPath(vpath, k) ==
    IF VPathOption(vpath, "vpopt_pwpath").rc = rcOK
    THEN KeySetTemporary(KeyStart,
            <<"KDirectoryOpenFileRead", VPathOption(vpath, "vpopt_pwpath").val>>, "pwpath", k)
    ELSE IF VPathOption(vpath, "vpopt_pwfd").rc = rcOK
    THEN KeySetTemporary(KeyStart,
            <<"KFileMakeFDFileRead", atoi(VPathOption(vpath, "vpopt_pwfd").val)>>, "pwfd", k)
    ELSE KeyStart

\* lines 408-421: the key of the keystore, the temporary one when one is set
KeyFromStore(s, k) ==
    IF s.rc # rcOK THEN s
    ELSE IF k.get # rcOK THEN [s EXCEPT !.rc = k.get, !.ops = @ \o <<<<"KKeyStoreGetKey">>>>]
    ELSE [s EXCEPT !.rc = IF ~k.fits THEN RC("rcBuffer", "rcInsufficient") ELSE k.krel,
                   !.ops = @ \o <<<<"KKeyStoreGetKey">>>>,
                   !.key = IF s.slot # "none" THEN s.slot ELSE "keystore"]

\* lines 423-426: the temporary key is forgotten
KeyClear(s, k) ==
    [s EXCEPT !.rc = IF s.rc = rcOK THEN k.clear ELSE @,
              !.ops = @ \o <<<<"ClearTemporaryKey">>>>,
              !.slot = KKeyStoreSetTemporaryKeyFromFile(s.slot, "NULL", k.clear)]

\* GetEncryptionKey that returns at the first failure
GetEncryptionKey_return(vpath, k) ==
    IF KeyFromStore(KeyFromPath(vpath, k), k).rc # rcOK
    THEN KeyFromStore(KeyFromPath(vpath, k), k)
    ELSE KeyClear(KeyFromStore(KeyFromPath(vpath, k), k), k)

\* GetEncryptionKey ( self, vpath, obuff, buf_size, & pwd_size ):
\* [rc, ops, slot, key]
GetEncryptionKey(vpath, k) == KeyClear(KeyFromStore(KeyFromPath(vpath, k), k), k)

KeyTexts ==
    { <<"/", "a">>, <<"/", "a", "?", "p", "w", "f", "i", "l", "e", "=", "k">>, <<"/", "a", "?", "p", "w", "f", "i", "l", "e", "=", "5">>, <<"/", "a", "?", "e", "n", "c", "&", "p", "w", "f", "i", "l", "e", "=", "1", "2">>, <<"/", "a", "?", "p", "w", "f", "i", "l", "e">>,
      <<"/", "a", "?", "P", "W", "F", "I", "L", "E", "=", "k">>, <<"n", "c", "b", "i", "-", "f", "i", "l", "e", ":", "a", "?", "e", "n", "c", "#", "s">>, <<"n", "c", "b", "i", "-", "f", "i", "l", "e", ":", "a", "?", "p", "w", "f", "i", "l", "e", "=", "/", "k", "/", "p", "&", "e", "n", "c">>, <<"/", "a", "?", "p", "w", "f", "i", "l", "e", "=", "5", "k">> }

InitKey == InitOf(KeyTexts)

\* GetEncryptionKey ( mgr, made, obuff, sizeof obuff, & z )
GetKey ==
    /\ pc = "made"
    /\ made.rc = rcOK
    /\ \E k \in KeyAnswers :
          res' = [called |-> TRUE, k |-> k, ret |-> GetEncryptionKey(made.path, k)]
    /\ pc' = "keyed"
    /\ UNCHANGED <<text, made, str, remade, read>>
    /\ UNCHANGED <<out, singleton, objs, thr>>

NextKey == MakePath \/ GetKey

SpecKey == InitKey /\ [][NextKey]_vars

\* the value of the pwfile option of the path made, when it has one
PwFile == VPathReadParam(made.path, S_pwfile)

\* a value that is a decimal number
Numeric(s) == Len(s) # 0 /\ \A i \in DOMAIN s : isdigit(s[i])

\* the calls of a key acquisition, by name
Called(ops, name) == \E i \in DOMAIN ops : ops[i][1] = name

\* C27: key acquisition follows the priority order pwpath, then pwfd, then
\* keystore: a Path carrying pwpath has that file opened through the FS and
\* installed as the temporary key; otherwise a Path carrying pwfd (a numeric
\* pwfile value) has that numeric descriptor read and installed as the
\* temporary key; the keystore's current key is requested only after that
\* step succeeded or neither option was present
C27_KeyPriority ==
    res.called =>
        /\ (PwFile.rc = rcOK /\ ~Numeric(PwFile.val)) =>
              /\ res.ret.ops[1] = <<"KDirectoryOpenFileRead", PwFile.val>>
              /\ (res.k.open = rcOK) => res.ret.ops[2] = <<"SetTemporaryKey", "pwpath">>
        /\ (PwFile.rc = rcOK /\ Numeric(PwFile.val)) =>
              /\ res.ret.ops[1] = <<"KFileMakeFDFileRead", atoi(PwFile.val)>>
              /\ (res.k.open = rcOK) => res.ret.ops[2] = <<"SetTemporaryKey", "pwfd">>
        /\ Called(res.ret.ops, "KKeyStoreGetKey") =>
              \/ PwFile.rc # rcOK
              \/ res.k.open = rcOK /\ res.k.set = rcOK /\ res.k.rel = rcOK

\* C28: on every return path of key acquisition (success, failure to open
\* the pwfile, failure of the keystore, or a too-small output buffer) the
\* keystore's temporary-key slot has been cleared before the function
\* returns
C28_TemporaryKeyCleared ==
    res.called =>
        /\ res.ret.slot = "none"
        /\ res.ret.ops[Len(res.ret.ops)] = <<"ClearTemporaryKey">>

\* a temporary key was set and the acquisition failed after that
C28_Witness ==
    /\ res.called
    /\ Called(res.ret.ops, "SetTemporaryKey")
    /\ res.k.set = rcOK
    /\ res.ret.rc # rcOK
    /\ res.ret.slot = "none"


\* ------------------------------------------------------------------------
\* the open pipeline: VFSManagerOpenFileRead and VFSManagerOpenFileReadDecrypt
\* with a resolver, a directory, a transport and streams whose answers are
\* given

Rc2 == {rcOK, rcOther}
rcNoRandomAccess == RC("rcFunction", "rcUnsupported")

\* an open stream: its stages, the outermost first; what the innermost one
\* has handed out when it cannot seek; whether it can; whether the 64 KiB
\* buffer holds the bytes from offset 0
KFile(raw) == [stack |-> <<raw>>, pos |-> 0, seekable |-> FALSE, cached |-> FALSE]

\* a stage made on top of a stream
Wrapped(file, stage) == [file EXCEPT !.stack = <<stage>> \o file.stack]

\* a read at offset 0 of the stream gets the first bytes of the data: the
\* 64 KiB buffer serves them when it holds them, every other stage asks the
\* stage below, the innermost seeks or has handed out nothing yet
RECURSIVE Serves0From(_, _)
Serves0From(file, k) ==
    IF k = Len(file.stack) THEN file.seekable \/ file.pos = 0
    ELSE (file.stack[k] = "KBufFile(64K)" /\ file.cached) \/ Serves0From(file, k + 1)

Serves0(file) == Serves0From(file, 1)

\* the answers of the collaborators of the decryption probe
ProbeAnswers ==
    [ ra : {rcOK, rcNoRandomAccess, rcOther},   \* KFileRandomAccess
      buf : Rc2,                                \* KBufFileMakeRead ( ..., 64K )
      read : Rc2,                               \* KFileReadAll
      magic : {"aes", "wga", "none"},           \* KFileIsEnc, KFileIsWGAEnc
      key : {KeyAllOK, [KeyAllOK EXCEPT !.get = rcOther]},
      kkey : Rc2,                               \* KKeyInitRead
      enc : Rc2,                                \* KEncFileMakeRead, KFileMakeWGAEncRead
      buf2 : Rc2 ]                              \* KBufFileMakeRead ( ..., 256M )

ProbeOK ==
    [ra |-> rcOK, buf |-> rcOK, read |-> rcOK, magic |-> "none", key |-> KeyAllOK,
     kkey |-> rcOK, enc |-> rcOK, buf2 |-> rcOK]

\* lines 763-764: KFileReadAll ( file, 0, tbuff, sizeof tbuff, & tz )
ProbeReadAll(file, p, ops) ==
    IF p.read # rcOK
    THEN [rc |-> p.read, file |-> file, ops |-> ops \o <<"KFileReadAll">>]
    ELSE [rc |-> rcOK,
          file |-> [file EXCEPT !.pos = IF file.seekable THEN 0 ELSE 4096,
                                !.cached = (file.stack[1] = "KBufFile(64K)")],
          ops |-> ops \o <<"KFileReadAll">>]

\* the pre-read that reads through the stream it was given, whether or not
\* that stream can seek
ProbeRead_unbuffered(file, p) ==
    IF p.ra = rcOK
    THEN ProbeReadAll([file EXCEPT !.seekable = TRUE], p, <<"KFileRandomAccess">>)
    ELSE IF p.ra.state = "rcUnsupported"
    THEN ProbeReadAll(file, p, <<"KFileRandomAccess">>)
    ELSE [rc |-> p.ra, file |-> file, ops |-> <<"KFileRandomAccess">>]

\* lines 734-764: the pre-read of 4 KiB, through a 64 KiB buffer made on the
\* stream when the stream cannot seek: [rc, file, ops]
ProbeRead(file, p) ==
    IF p.ra = rcOK
    THEN ProbeReadAll([file EXCEPT !.seekable = TRUE], p, <<"KFileRandomAccess">>)
    ELSE IF p.ra.state = "rcUnsupported"
    THEN IF p.buf # rcOK
         THEN [rc |-> p.buf, file |-> file,
               ops |-> <<"KFileRandomAccess", "KBufFileMakeRead(64K)">>]
         ELSE ProbeReadAll(Wrapped(file, "KBufFile(64K)"), p,
                           <<"KFileRandomAccess", "KBufFileMakeRead(64K)">>)
    ELSE [rc |-> p.ra, file |-> file, ops |-> <<"KFileRandomAccess">>]

\* what an open gives back: rc, * f, * was_encrypted and the calls made
Opened(rc, f, was, ops) == [rc |-> rc, f |-> f, was_encrypted |-> was, ops |-> ops]

\* lines 774-812: the AES envelope
ProbeAES(r, key, p) ==
    IF key.rc # rcOK THEN Opened(key.rc, NULL, TRUE, r.ops \o <<"GetEncryptionKey">>)
    ELSE IF p.kkey # rcOK
    THEN Opened(p.kkey, NULL, TRUE, r.ops \o <<"GetEncryptionKey", "KKeyInitRead">>)
    ELSE IF p.enc # rcOK
    THEN Opened(p.enc, NULL, TRUE,
                r.ops \o <<"GetEncryptionKey", "KKeyInitRead", "KEncFileMakeRead">>)
    ELSE IF p.buf2 # rcOK
    THEN Opened(p.buf2, NULL, TRUE,
                r.ops \o <<"GetEncryptionKey", "KKeyInitRead", "KEncFileMakeRead",
                           "KBufFileMakeRead(256M)">>)
    ELSE Opened(rcOK, Wrapped(Wrapped(r.file, "KEncFile"), "KBufFile(256M)"), TRUE,
                r.ops \o <<"GetEncryptionKey", "KKeyInitRead", "KEncFileMakeRead",
                           "KBufFileMakeRead(256M)">>)

\* lines 813-832: the WGA envelope
ProbeWGA(r, key, p) ==
    IF key.rc # rcOK THEN Opened(key.rc, NULL, TRUE, r.ops \o <<"GetEncryptionKey">>)
    ELSE IF p.enc # rcOK
    THEN Opened(p.enc, NULL, TRUE, r.ops \o <<"GetEncryptionKey", "KFileMakeWGAEncRead">>)
    ELSE Opened(rcOK, Wrapped(r.file, "KWGAEncFile"), TRUE,
                r.ops \o <<"GetEncryptionKey", "KFileMakeWGAEncRead">>)

\* lines 756-848: what is made of the stream once the prefix was read
ProbeMatch(r, path, p) ==
    IF r.rc # rcOK THEN Opened(r.rc, NULL, FALSE, r.ops)
    ELSE CASE p.magic = "aes" -> ProbeAES(r, GetEncryptionKey(path, p.key), p)
           [] p.magic = "wga" -> ProbeWGA(r, GetEncryptionKey(path, p.key), p)
           [] OTHER -> Opened(rcOK, r.file, FALSE, r.ops)

\* the decryption step that probes every stream
VFSManagerOpenFileReadDecryption_always(file, path, force_decrypt, p) ==
    ProbeMatch(ProbeRead(file, p), path, p)

\* VFSManagerOpenFileReadDecryption ( self, dir, f, file, path, force_decrypt,
\* was_encrypted )
VFSManagerOpenFileReadDecryption(file, path, force_decrypt, p) ==
    IF VPathOption(path, "vpopt_encrypted").rc # rcOK /\ ~force_decrypt
    THEN Opened(rcOK, file, FALSE, <<>>)
    ELSE ProbeMatch(ProbeRead(file, p), path, p)

\* the answers of the collaborators of the dispatch and of the two opens
Kpts == {"kptFile", "kptDir", "kptNotFound", "kptBadPath"}

DispatchAnswers ==
    [ resolver : BOOLEAN,             \* self -> resolver != NULL
      local : Rc2,                    \* VResolverLocal
      rslv : Rc2,                     \* KDirectoryResolvePath
      type : Kpts,                    \* KDirectoryPathType
      open : Rc2,                     \* KDirectoryOpenFileRead
      special : Rc2,                  \* KFileMakeStdIn, KFileMakeNullRead, KFileMakeFDFileRead
      junk : {rcOK, rcJunk},          \* an rc nothing assigned
      cache : Rc2,                    \* VResolverCache
      curl : Rc2,                     \* KCurlFileMake
      wrap : Rc2 ]                    \* KBufFileMakeRead ( ..., 128M ), KDirectoryMakeCacheTee

S_dev == <<"/", "d", "e", "v", "/">>
S_dev_stdin == <<"/", "d", "e", "v", "/", "s", "t", "d", "i", "n">>
S_dev_null == <<"/", "d", "e", "v", "/", "n", "u", "l", "l">>
S_dev_fd == <<"/", "d", "e", "v", "/", "f", "d", "/">>

StartsWith(s, pre) == Len(s) >= Len(pre) /\ SubSeq(s, 1, Len(pre)) = pre

\* VFSManagerOpenFileReadSpecial ( pbuff, z, & file ): [rc, file, ops]
VFSManagerOpenFileReadSpecial(pbuff, d) ==
    IF ~StartsWith(pbuff, S_dev) THEN [rc |-> rcOK, file |-> NULL, ops |-> <<>>]
    ELSE IF pbuff = S_dev_stdin
    THEN [rc |-> d.special, file |-> IF d.special = rcOK THEN KFile("stdin") ELSE NULL,
          ops |-> <<"KFileMakeStdIn">>]
    ELSE IF pbuff = S_dev_null
    THEN [rc |-> d.special, file |-> IF d.special = rcOK THEN KFile("null") ELSE NULL,
          ops |-> <<"KFileMakeNullRead">>]
    ELSE IF StartsWith(pbuff, S_dev_fd) /\ Numeric(SubSeq(pbuff, Len(S_dev_fd) + 1, Len(pbuff)))
    THEN [rc |-> d.special, file |-> IF d.special = rcOK THEN KFile("fd") ELSE NULL,
          ops |-> <<"KFileMakeFDFileRead">>]
    \* no branch assigned rc
    ELSE [rc |-> d.junk, file |-> NULL, ops |-> <<>>]

\* VFSManagerOpenFileReadRegularFile ( pbuff, z, & file, dir ): [rc, file, ops]
VFSManagerOpenFileReadRegularFile(pbuff, d) ==
    IF d.rslv # rcOK
    THEN [rc |-> d.rslv, file |-> NULL, ops |-> <<"KDirectoryResolvePath">>]
    ELSE CASE d.type = "kptNotFound" ->
                [rc |-> RC("rcFile", "rcNotFound"), file |-> NULL,
                 ops |-> <<"KDirectoryResolvePath", "KDirectoryPathType">>]
           [] d.type = "kptBadPath" ->
                [rc |-> RC("rcFile", "rcInvalid"), file |-> NULL,
                 ops |-> <<"KDirectoryResolvePath", "KDirectoryPathType">>]
           [] d.type = "kptDir" ->
                [rc |-> RC("rcFile", "rcIncorrect"), file |-> NULL,
                 ops |-> <<"KDirectoryResolvePath", "KDirectoryPathType">>]
           [] d.type = "kptFile" ->
                [rc |-> d.open, file |-> IF d.open = rcOK THEN KFile("KSysFile") ELSE NULL,
                 ops |-> <<"KDirectoryResolvePath", "KDirectoryPathType",
                           "KDirectoryOpenFileRead">>]

\* lines 1007-1018: the file opened as a special one or as a regular one
OpenLocalFile(sp, pbuff, d) ==
    IF sp.rc # rcOK \/ sp.file # NULL THEN sp
    ELSE VFSManagerOpenFileReadRegularFile(pbuff, d)

\* lines 1023-1029: the decryption step on the file opened
OpenLocalDecrypt(o, path, force_decrypt, p) ==
    IF o.rc # rcOK THEN Opened(o.rc, NULL, FALSE, o.ops)
    ELSE LET Made(r) == Opened(r.rc, r.f, r.was_encrypted, o.ops \o r.ops)
         IN  Made(VFSManagerOpenFileReadDecryption(o.file, path, force_decrypt, p))

\* VFSManagerOpenFileReadDirectoryRelativeInt ( self, dir, f, path,
\* force_decrypt, NULL ) with self and f non-NULL
VFSManagerOpenFileReadDirectoryRelativeInt(path, force_decrypt, d, p) ==
    IF path = NULL THEN Opened(RC("rcParam", "rcNull"), NULL, FALSE, <<>>)
    ELSE OpenLocalDecrypt(
            OpenLocalFile(VFSManagerOpenFileReadSpecial(VPathReadPathInt(path), d),
                          VPathReadPathInt(path), d),
            path, force_decrypt, p)

\* VFSManagerMakeCurlFile ( self, cfp, url, cache_location )
VFSManagerMakeCurlFile(cached, d) ==
    IF d.curl # rcOK THEN Opened(d.curl, NULL, FALSE, <<"KCurlFileMake">>)
    ELSE IF cached
    THEN Opened(rcOK,
                IF d.wrap = rcOK THEN Wrapped(KFile("KCurlFile"), "KCacheTeeFile")
                ELSE KFile("KCurlFile"),
                FALSE, <<"KCurlFileMake", "KDirectoryMakeCacheTee">>)
    ELSE Opened(rcOK,
                IF d.wrap = rcOK THEN Wrapped(KFile("KCurlFile"), "KBufFile(128M)")
                ELSE KFile("KCurlFile"),
                FALSE, <<"KCurlFileMake", "KBufFileMakeRead(128M)">>)

\* VFSManagerOpenCurlFile ( self, f, path ) with self, f and path non-NULL
VFSManagerOpenCurlFile(path, d) ==
    IF d.resolver
    THEN LET Made(r) == Opened(r.rc, r.f, r.was_encrypted, <<"VResolverCache">> \o r.ops)
         IN  Made(VFSManagerMakeCurlFile(d.cache = rcOK, d))
    ELSE VFSManagerMakeCurlFile(FALSE, d)

\* LegacyVPathGetUri_t ( self ): a NULL or invalid path is vpuri_invalid
UriTypeOf(self) ==
    IF self = NULL THEN "vpuri_invalid"
    ELSE IF self.path_type = "vpInvalid" THEN "vpuri_invalid"
    ELSE VPathGetUri_t(self)

\* the path VResolverLocal gives for an accession
ResolvedLocal ==
    [VPathZero EXCEPT !.path = <<"/", "r", "/", "S", "R", "R", "0", "0", "1", "6", "5", "6">>, !.path_type = "vpFullPath"]

LocalUris == {"vpuri_none", "vpuri_ncbi_vfs", "vpuri_ncbi_file", "vpuri_file"}

\* lines 1191-1198: ncbi-acc, resolved by the resolver when there is one
OpenAccession(force_decrypt, d, p) ==
    IF ~d.resolver THEN Opened(RC("rcSRA", "rcUnsupported"), NULL, FALSE, <<>>)
    ELSE IF d.local # rcOK THEN Opened(d.local, NULL, FALSE, <<"VResolverLocal">>)
    ELSE LET Made(r) == Opened(r.rc, r.f, r.was_encrypted, <<"VResolverLocal">> \o r.ops)
         IN  Made(VFSManagerOpenFileReadDirectoryRelativeInt(ResolvedLocal, force_decrypt,
                                                             d, p))

\* VFSManagerOpenFileRead where a path that is not supported is opened as a
\* local one
VFSManagerOpenFileRead_local(self_null, f_null, path, d, p) ==
    IF f_null THEN Opened(RC("rcParam", "rcNull"), NULL, FALSE, <<>>)
    ELSE IF self_null THEN Opened(RC("rcSelf", "rcNull"), NULL, FALSE, <<>>)
    ELSE CASE UriTypeOf(path) = "vpuri_ncbi_acc" ->
                OpenAccession(FALSE, d, p)
           [] UriTypeOf(path) \in {"vpuri_http", "vpuri_ftp"} -> VFSManagerOpenCurlFile(path, d)
           [] OTHER ->
                VFSManagerOpenFileReadDirectoryRelativeInt(path, FALSE, d, p)

\* VFSManagerOpenFileRead ( self, f, path ): [rc, f, was_encrypted, ops]
VFSManagerOpenFileRead(self_null, f_null, path, d, p) ==
    IF f_null THEN Opened(RC("rcParam", "rcNull"), NULL, FALSE, <<>>)
    ELSE IF self_null THEN Opened(RC("rcSelf", "rcNull"), NULL, FALSE, <<>>)
    ELSE CASE UriTypeOf(path) = "vpuri_not_supported" ->
                Opened(RC("rcPath", "rcUnsupported"), NULL, FALSE, <<>>)
           [] UriTypeOf(path) = "vpuri_ncbi_acc" ->
                OpenAccession(FALSE, d, p)
           [] UriTypeOf(path) \in LocalUris ->
                VFSManagerOpenFileReadDirectoryRelativeInt(path, FALSE, d, p)
           [] UriTypeOf(path) = "vpuri_ncbi_legrefseq" ->
                Opened(RC("rcPath", "rcIncorrect"), NULL, FALSE, <<>>)
           [] UriTypeOf(path) \in {"vpuri_http", "vpuri_ftp"} -> VFSManagerOpenCurlFile(path, d)
           [] OTHER -> Opened(RC("rcPath", "rcInvalid"), NULL, FALSE, <<>>)

\* VFSManagerOpenFileReadDecrypt ( self, f, path ) with self non-NULL
VFSManagerOpenFileReadDecrypt(f_null, path, d, p) ==
    IF f_null THEN Opened(RC("rcParam", "rcNull"), NULL, FALSE, <<>>)
    ELSE VFSManagerOpenFileReadDirectoryRelativeInt(path, TRUE, d, p)

\* the answers that bear on the open of this path; the others are left at
\* their first value
Bears(path, d) ==
    /\ UriTypeOf(path) \notin {"vpuri_ncbi_acc", "vpuri_http", "vpuri_ftp"} => d.resolver
    /\ UriTypeOf(path) # "vpuri_ncbi_acc" => d.local = rcOK
    /\ UriTypeOf(path) \notin LocalUris \cup {"vpuri_ncbi_acc"} =>
          d.rslv = rcOK /\ d.type = "kptFile" /\ d.open = rcOK
    /\ ~(path # NULL /\ UriTypeOf(path) \in LocalUris /\ StartsWith(VPathReadPathInt(path), S_dev)) =>
          d.special = rcOK /\ d.junk = rcOK
    /\ UriTypeOf(path) \notin {"vpuri_http", "vpuri_ftp"} =>
          d.cache = rcOK /\ d.curl = rcOK /\ d.wrap = rcOK

\* the probe was entered
Probed(r) == \E i \in DOMAIN r.ops : r.ops[i] = "KFileRandomAccess"

OpenTexts ==
    { <<"a">>, <<"/", "a">>, <<"/", "a", "?", "e", "n", "c">>, <<"/", "a", "?", "e", "n", "c", "r", "y", "p", "t", "=", "1">>, <<"/", "a", "?", "p", "w", "f", "i", "l", "e", "=", "k", "&", "e", "n", "c">>, <<"n", "c", "b", "i", "-", "f", "i", "l", "e", ":", "/", "a", "?", "e", "n", "c">>,
      <<"f", "i", "l", "e", ":", "/", "a">>, <<"f", "i", "l", "e", ":", "a", "?", "E", "N", "C">>, <<"h", "t", "t", "p", ":", "/", "/", "h", "/", "x">>, <<"f", "t", "p", ":", "/", "/", "h", "/", "x">>, <<"h", "t", "t", "p", "s", ":", "/", "/", "h", "/", "x">>, <<"h", "t", "t", "p", ":", "/", "/", "h", "/", "x", "?", "e", "n", "c">>,
      <<"x", "-", "y", ":", "z">>, <<"x", "-", "n", "c", "b", "i", "-", "l", "e", "g", "r", "e", "f", "s", "e", "q", ":", "a">>, <<"n", "c", "b", "i", "-", "a", "c", "c", ":", "S", "R", "R", "0", "0", "1", "6", "5", "6">>, <<"/", "d", "e", "v", "/", "s", "t", "d", "i", "n">>, <<"/", "d", "e", "v", "/", "n", "u", "l", "l">>,
      <<"/", "d", "e", "v", "/", "f", "d", "/", "3">>, <<"/", "d", "e", "v", "/", "z", "e", "r", "o">>, <<"f", "a", "s", "p", ":", "/", "/", "h", "/", "x">>, <<"n", "c", "b", "i", "-", "o", "b", "j", ":", "1", "2">>, <<"/", "a", "?", "e", "n", "c", "r">>, <<"/", "a", "#", "d">>,
      <<"/", "d", "e", "v", "/", "f", "d", "/", "x">> }

InitOpen == InitOf(OpenTexts)

\* ------------------------------------------------------------------------
\* the reference counts an open works on: of the Path handed in ("path_") and
\* of the Path VResolverLocal makes ("tpath"); a pointer is one of these
\* names or "NULL"

\* the counts at the call: the Path as VPathMake left it, no resolved Path
PathMade == [p \in {"path_", "tpath"} |-> IF p = "path_" THEN 1 ELSE 0]

\* VPathAddRef ( self )
VPathAddRef(refs, self) ==
    IF self = "NULL" THEN refs ELSE [refs EXCEPT ![self] = @ + 1]

\* VPathRelease ( self )
VPathRelease(refs, self) ==
    IF self = "NULL" \/ refs[self] <= 0 THEN refs ELSE [refs EXCEPT ![self] = @ - 1]

\* ResolveVPathByVResolver ( resolver, & path ) with a resolver:
\* [rc, path, refs]
ResolveVPathByVResolver(refs, path, local) ==
    IF local = rcOK
    THEN [rc |-> rcOK, path |-> "tpath",
          refs |-> VPathRelease([refs EXCEPT !["tpath"] = 1], path)]
    ELSE [rc |-> local, path |-> path, refs |-> refs]

\* ResolveVPathBySRAPath ( & path ): "* path = NULL"
ResolveVPathBySRAPath(refs) ==
    [rc |-> RC("rcSRA", "rcUnsupported"), path |-> "NULL", refs |-> refs]

\* the counts after "rc = VPathAddRef ( path_ )", the switch on the scheme
\* and "VPathRelease ( path )", shared by VFSManagerOpenFileRead and
\* VFSManagerOpenDirectoryReadDirectoryRelativeInt
OpenPathRefs(path, resolver, local) ==
    LET path_ == IF path = NULL THEN "NULL" ELSE "path_"
        Switch(refs) ==
            IF UriTypeOf(path) = "vpuri_ncbi_acc"
            THEN LET Done(r) == VPathRelease(r.refs, r.path)
                 IN  Done(IF resolver THEN ResolveVPathByVResolver(refs, path_, local)
                                      ELSE ResolveVPathBySRAPath(refs))
            ELSE VPathRelease(refs, path_)
    IN  Switch(VPathAddRef(PathMade, path_))

\* the counts VFSManagerOpenFileRead leaves
OpenFileReadRefs(self_null, f_null, path, d) ==
    IF f_null \/ self_null THEN PathMade ELSE OpenPathRefs(path, d.resolver, d.local)

\* the counts VFSManagerOpenDirectoryReadDirectoryRelativeInt leaves
OpenDirectoryReadRefs(d_null, path, a) ==
    IF d_null \/ path = NULL THEN PathMade ELSE OpenPathRefs(path, a.resolver, a.local)

\* ------------------------------------------------------------------------
\* the reference counts of the stages of a local read-open: the raw file,
\* the 64 KiB buffer made for a stream that cannot seek, the decryption
\* stage and the 256 MiB buffer; "under" is the stage a stage wraps

Stages == {"raw", "buf64", "enc", "buf256"}

NoStages == [count |-> [s \in Stages |-> 0], under |-> [s \in Stages |-> "none"]]

\* the raw file as KDirectoryOpenFileRead or a maker of a special file
\* leaves it
RawOpened == [NoStages EXCEPT !.count["raw"] = 1]

\* a stage made on the stage below: it holds one reference on it
MakeOn(st, s, below) ==
    [st EXCEPT !.count[s] = 1, !.under[s] = below, !.count[below] = @ + 1]

\* KFileAddRef ( self )
KFileAddRef(st, s) == [st EXCEPT !.count[s] = @ + 1]

\* KFileRelease ( self ): the last release destroys the stage, which
\* releases the stage it wraps
RECURSIVE KFileRelease(_, _)
KFileRelease(st, s) ==
    IF s = "none" THEN st
    ELSE IF st.count[s] <= 0 THEN st
    ELSE IF st.count[s] = 1
    THEN KFileRelease([st EXCEPT !.count[s] = 0], st.under[s])
    ELSE [st EXCEPT !.count[s] = @ - 1]

\* what the decryption step leaves: the counts and the stage stored in * f
Staged(st, f) == [st |-> st, f |-> f]

\* lines 756-848 by the counts: "file" is the stage the prefix was read from
MatchStages(st, file, key, p) ==
    IF p.read # rcOK THEN Staged(st, "none")
    ELSE CASE p.magic = "aes" ->
                IF key.rc # rcOK \/ p.kkey # rcOK \/ p.enc # rcOK THEN Staged(st, "none")
                ELSE IF p.buf2 # rcOK
                THEN Staged(KFileRelease(MakeOn(st, "enc", file), "enc"), "none")
                ELSE Staged(KFileRelease(MakeOn(MakeOn(st, "enc", file), "buf256", "enc"),
                                         "enc"),
                            "buf256")
           [] p.magic = "wga" ->
                IF key.rc # rcOK \/ p.enc # rcOK THEN Staged(st, "none")
                ELSE Staged(MakeOn(st, "enc", file), "enc")
           [] OTHER -> Staged(KFileAddRef(st, file), file)

\* VFSManagerOpenFileReadDecryption by the counts
DecryptionStages(st, path, force_decrypt, p) ==
    IF VPathOption(path, "vpopt_encrypted").rc # rcOK /\ ~force_decrypt
    THEN Staged(KFileAddRef(st, "raw"), "raw")
    ELSE IF p.ra = rcOK THEN MatchStages(st, "raw", GetEncryptionKey(path, p.key), p)
    ELSE IF p.ra.state = "rcUnsupported"
    THEN IF p.buf # rcOK THEN Staged(st, "none")
         ELSE MatchStages(MakeOn(st, "buf64", "raw"), "buf64",
                          GetEncryptionKey(path, p.key), p)
    ELSE Staged(st, "none")

\* VFSManagerOpenFileReadInt by the counts: the file opened, the decryption
\* step and "KFileRelease ( file )" on the raw file
OpenFileReadIntStages(path, force_decrypt, d, p) ==
    LET Dec(o) ==
            IF o.rc # rcOK THEN Staged(NoStages, "none")
            ELSE LET Rel(r) == Staged(KFileRelease(r.st, "raw"), r.f)
                 IN  Rel(DecryptionStages(RawOpened, path, force_decrypt, p))
    IN  Dec(OpenLocalFile(VFSManagerOpenFileReadSpecial(VPathReadPathInt(path), d),
                          VPathReadPathInt(path), d))

\* the stages VFSManagerOpenFileRead leaves
OpenFileReadStages(self_null, f_null, path, d, p) ==
    IF f_null \/ self_null \/ path = NULL THEN Staged(NoStages, "none")
    ELSE IF UriTypeOf(path) \in LocalUris THEN OpenFileReadIntStages(path, FALSE, d, p)
    ELSE IF UriTypeOf(path) = "vpuri_ncbi_acc" /\ d.resolver /\ d.local = rcOK
    THEN OpenFileReadIntStages(ResolvedLocal, FALSE, d, p)
    ELSE Staged(NoStages, "none")

\* the stages VFSManagerOpenFileReadDecrypt leaves
OpenFileReadDecryptStages(f_null, path, d, p) ==
    IF f_null \/ path = NULL THEN Staged(NoStages, "none")
    ELSE OpenFileReadIntStages(path, TRUE, d, p)

\* the path handed to an open: the one made, or NULL
PathArgs == {made.path, NULL}

\* VFSManagerOpenFileRead ( mgr, & f, made )
OpenFileRead ==
    /\ pc = "made"
    /\ \E self_null \in BOOLEAN, f_null \in BOOLEAN, path \in PathArgs :
       \E d \in {x \in DispatchAnswers : Bears(path, x)} :
       \E p \in IF Probed(VFSManagerOpenFileRead(self_null, f_null, path, d, ProbeOK))
                THEN ProbeAnswers ELSE {ProbeOK} :
          res' = [called |-> TRUE, op |-> "VFSManagerOpenFileRead", self_null |-> self_null,
                  f_null |-> f_null, path |-> path, force |-> FALSE, d |-> d, p |-> p,
                  refs |-> OpenFileReadRefs(self_null, f_null, path, d),
                  stages |-> OpenFileReadStages(self_null, f_null, path, d, p),
                  ret |-> VFSManagerOpenFileRead(self_null, f_null, path, d, p)]
    /\ pc' = "opened"
    /\ UNCHANGED <<text, made, str, remade, read>>
    /\ UNCHANGED <<out, singleton, objs, thr>>

\* VFSManagerOpenFileReadDecrypt ( mgr, & f, made )
OpenFileReadDecrypt ==
    /\ pc = "made"
    /\ \E f_null \in BOOLEAN, path \in PathArgs :
       \E d \in {x \in DispatchAnswers : Bears(path, x)} :
       \E p \in IF Probed(VFSManagerOpenFileReadDecrypt(f_null, path, d, ProbeOK))
                THEN ProbeAnswers ELSE {ProbeOK} :
          res' = [called |-> TRUE, op |-> "VFSManagerOpenFileReadDecrypt", self_null |-> FALSE,
                  f_null |-> f_null, path |-> path, force |-> TRUE, d |-> d, p |-> p,
                  refs |-> PathMade,
                  stages |-> OpenFileReadDecryptStages(f_null, path, d, p),
                  ret |-> VFSManagerOpenFileReadDecrypt(f_null, path, d, p)]
    /\ pc' = "opened"
    /\ UNCHANGED <<text, made, str, remade, read>>
    /\ UNCHANGED <<out, singleton, objs, thr>>

NextOpen == MakePath \/ OpenFileRead \/ OpenFileReadDecrypt

SpecOpen == InitOpen /\ [][NextOpen]_vars


\* VFSManagerOpenFileRead was called with a manager and a place for the file
OpenFileReadCalled ==
    /\ res.called
    /\ res.op = "VFSManagerOpenFileRead"
    /\ ~res.self_null
    /\ ~res.f_null

\* C23: VFSManagerOpenFileRead returns (rcPath, rcInvalid) for a Path of
\* scheme_type invalid, (rcPath, rcUnsupported) for not_supported, and an
\* error for ncbi_legrefseq; in each case * f is NULL and no filesystem,
\* resolver or transport open is attempted
C23_RejectedSchemes ==
    OpenFileReadCalled =>
        /\ UriTypeOf(res.path) = "vpuri_invalid" => res.ret.rc = RC("rcPath", "rcInvalid")
        /\ UriTypeOf(res.path) = "vpuri_not_supported" =>
              res.ret.rc = RC("rcPath", "rcUnsupported")
        /\ UriTypeOf(res.path) = "vpuri_ncbi_legrefseq" => res.ret.rc # rcOK
        /\ UriTypeOf(res.path) \in {"vpuri_invalid", "vpuri_not_supported", "vpuri_ncbi_legrefseq"}
              => res.ret.f = NULL /\ res.ret.ops = <<>>

\* a path of a scheme that is not supported was refused
C23_Witness ==
    /\ OpenFileReadCalled
    /\ UriTypeOf(res.path) = "vpuri_not_supported"
    /\ res.ret.rc = RC("rcPath", "rcUnsupported")
    /\ res.ret.f = NULL

\* the path whose file a local open opens: the one VResolverLocal gave for
\* an accession, else the one handed in
LocalPath ==
    IF UriTypeOf(res.path) = "vpuri_ncbi_acc" /\ res.op = "VFSManagerOpenFileRead"
    THEN ResolvedLocal ELSE res.path

\* a read-open opened a local file
LocalOpen ==
    /\ res.called
    /\ ~res.self_null /\ ~res.f_null /\ res.path # NULL
    /\ \/ res.op = "VFSManagerOpenFileReadDecrypt"
       \/ UriTypeOf(res.path) \in LocalUris
       \/ UriTypeOf(res.path) = "vpuri_ncbi_acc" /\ res.d.resolver /\ res.d.local = rcOK
    /\ OpenLocalFile(VFSManagerOpenFileReadSpecial(VPathReadPathInt(LocalPath), res.d),
                     VPathReadPathInt(LocalPath), res.d).rc = rcOK

\* the path carries the encrypted option or the caller asked to decrypt
Wanted == VPathOption(LocalPath, "vpopt_encrypted").rc = rcOK \/ res.force

\* the calls of an open, by name
Did(name) == \E i \in DOMAIN res.ret.ops : res.ret.ops[i] = name

\* the stream handed back is the file opened, with or without the 64 KiB
\* buffer made for the pre-read
RawReturned ==
    /\ res.ret.rc = rcOK
    /\ res.ret.f # NULL
    /\ \/ Len(res.ret.f.stack) = 1
       \/ Len(res.ret.f.stack) = 2 /\ res.ret.f.stack[1] = "KBufFile(64K)"
    /\ ~Did("GetEncryptionKey")

C25_ProbeNonDestructive ==
    (res.called /\ Did("KFileReadAll") /\ res.p.read = rcOK /\ res.ret.rc = rcOK) =>
        /\ res.ret.f # NULL
        /\ Serves0(res.ret.f)
        /\ ~res.ret.f.seekable =>
              /\ res.ret.f.cached
              /\ \E i \in DOMAIN res.ret.f.stack : res.ret.f.stack[i] = "KBufFile(64K)"

\* an AES envelope was found on a stream that cannot seek, and the
\* decrypting stream handed back stands on the buffer of the pre-read
C25_Witness ==
    /\ res.called
    /\ res.ret.rc = rcOK
    /\ res.p.ra = rcNoRandomAccess
    /\ res.p.magic = "aes"
    /\ res.ret.f.stack = <<"KBufFile(256M)", "KEncFile", "KBufFile(64K)", "stdin">>
    /\ Serves0(res.ret.f)

\* the scheme of the path made is http, https or ftp
RemoteScheme ==
    /\ res.path # NULL
    /\ res.path.from_uri
    /\ Lower(res.path.scheme) \in {S_http, S_https, S_ftp}

\* C26: VFSManagerOpenFileRead on an http, https or ftp Path performs the
\* remote open: it opens the URL through the transport, wraps the stream in
\* a cache-tee when Cache(path) produced a location and in a 128 MiB buffer
\* otherwise, and then applies the encryption probe to the wrapped stream
\* before returning it
C26_RemoteOpen ==
    (OpenFileReadCalled /\ RemoteScheme) =>
        /\ Did("KCurlFileMake")
        /\ res.ret.rc = rcOK =>
              /\ res.ret.f # NULL
              /\ \E i \in DOMAIN res.ret.f.stack :
                    res.ret.f.stack[i] = IF res.d.resolver /\ res.d.cache = rcOK
                                         THEN "KCacheTeeFile" ELSE "KBufFile(128M)"
              /\ Probed(res.ret)


(***************************************************************************)
(* Opening a directory: manager.c lines 1307 to 1740.  A directory handle  *)
(* is [kind, path, sub]; the handles a call releases are listed in         *)
(* released, "file" for the file it opened and "root" for the directory    *)
(* it opened before the fragment was applied.                              *)
(***************************************************************************)
KDirectory(kind, path) == [kind |-> kind, path |-> path, sub |-> <<>>]

\* the answers of the collaborators of a directory open
DirAnswers ==
    [ resolver : BOOLEAN,             \* self -> resolver != NULL
      local : Rc2,                    \* VResolverLocal
      rslv : Rc2,                     \* KDirectoryResolvePath
      type : Kpts,                    \* KDirectoryPathType
      open : Rc2,                     \* KDirectoryOpenFileRead, KCurlFileMake
      mount : Rc2,                    \* KQuickMountDirMake
      ra : Rc2,                       \* KFileRandomAccess
      read : Rc2,                     \* KFileReadAll
      sra : BOOLEAN,                  \* KFileIsSRA ( tbuff, tz ) == 0
      root : Rc2,                     \* the open of the archive or of the directory
      sub : Rc2 ]                     \* KDirectoryOpenDirRead of the fragment

DirOK ==
    [resolver |-> TRUE, local |-> rcOK, rslv |-> rcOK, type |-> "kptFile", open |-> rcOK,
     mount |-> rcOK, ra |-> rcOK, read |-> rcOK, sra |-> TRUE, root |-> rcOK, sub |-> rcOK]

\* the answers the file open inside a directory open gets
DirDispatch(a) ==
    [resolver |-> a.resolver, local |-> a.local, rslv |-> rcOK, type |-> "kptFile",
     open |-> a.open, special |-> rcOK, junk |-> rcOK, cache |-> rcOK, curl |-> a.open,
     wrap |-> rcOK]

\* what a step of a directory open leaves: [rc, d, file, root, released, ops]
DirStep(rc, d, file, root, released, ops) ==
    [rc |-> rc, d |-> d, file |-> file, root |-> root, released |-> released, ops |-> ops]

\* TransformFileToDirectory ( dir, file, d, path_str, was_encrypted )
TransformFileToDirectory(path_str, o, a) ==
    IF a.ra # rcOK
    THEN DirStep(a.ra, NULL, TRUE, FALSE, <<>>, o.ops \o <<"KFileRandomAccess">>)
    ELSE IF a.read # rcOK
    THEN DirStep(a.read, NULL, TRUE, FALSE, <<>>, o.ops \o <<"KFileRandomAccess", "KFileReadAll">>)
    ELSE IF a.root # rcOK
    THEN DirStep(a.root, NULL, TRUE, FALSE, <<>>,
                 o.ops \o <<"KFileRandomAccess", "KFileReadAll", "KDirectoryOpenArchive">>)
    ELSE DirStep(rcOK, KDirectory(IF a.sra THEN "sra" ELSE "tar", path_str), TRUE, TRUE, <<>>,
                 o.ops \o <<"KFileRandomAccess", "KFileReadAll", "KDirectoryOpenArchive">>)

\* the file of a path was opened, or not
FileToDirectory(path_str, o, a) ==
    IF o.rc # rcOK THEN DirStep(o.rc, NULL, FALSE, FALSE, <<>>, o.ops)
    ELSE TransformFileToDirectory(path_str, o, a)

\* the switch on KDirectoryPathType, lines 1468-1503 and 1561-1596, but for
\* the case of a directory
DirTyped(path, force_decrypt, a) ==
    CASE a.type = "kptNotFound" ->
            DirStep(RC("rcDirectory", "rcNotFound"), NULL, FALSE, FALSE, <<>>, <<>>)
      [] a.type = "kptBadPath" ->
            DirStep(RC("rcDirectory", "rcInvalid"), NULL, FALSE, FALSE, <<>>, <<>>)
      [] OTHER ->
            FileToDirectory(path.path,
                VFSManagerOpenFileReadDirectoryRelativeInt(path, force_decrypt,
                                                           DirDispatch(a), ProbeOK), a)

\* KDirectoryOpenDirRead ( dir, d, false, rbuff ) of a directory
DirOpened(path, a) ==
    IF a.root # rcOK THEN DirStep(a.root, NULL, FALSE, FALSE, <<>>, <<"KDirectoryOpenDirRead">>)
    ELSE DirStep(rcOK, KDirectory("dir", path.path), FALSE, TRUE, <<>>,
                 <<"KDirectoryOpenDirRead">>)

\* lines 1422-1430, 1509-1517, 1604-1610: the directory found is replaced
\* by its subdirectory named after the '#', and released
DirFragment(path, t, a) ==
    DirStep(a.sub,
            IF a.sub = rcOK THEN [t.d EXCEPT !.sub = Tail(path.fragment)] ELSE NULL,
            t.file, t.root, t.released \o <<"root">>, t.ops \o <<"KDirectoryOpenDirRead">>)

\* KFileRelease ( file ): nothing happens for NULL
DirFileReleased(t) ==
    IF t.file THEN [t EXCEPT !.released = @ \o <<"file">>] ELSE t

\* VFSManagerOpenDirectoryReadKfs ( self, dir, d, path, force_decrypt )
VFSManagerOpenDirectoryReadKfs(path, force_decrypt, a) ==
    IF a.rslv # rcOK THEN DirStep(a.rslv, NULL, FALSE, FALSE, <<>>, <<>>)
    ELSE IF a.type = "kptDir" THEN DirOpened(path, a)
    ELSE LET Fragment(t) == IF t.rc = rcOK /\ Len(path.fragment) > 1
                            THEN DirFragment(path, t, a) ELSE t
         IN  DirFileReleased(Fragment(DirTyped(path, force_decrypt, a)))

\* VFSManagerOpenDirectoryReadLegrefseq ( self, dir, d, path, force_decrypt )
VFSManagerOpenDirectoryReadLegrefseq(path, force_decrypt, a) ==
    IF a.rslv # rcOK THEN DirStep(a.rslv, NULL, FALSE, FALSE, <<>>, <<>>)
    ELSE LET Fragment(t) ==
                 IF t.rc # rcOK THEN t
                 ELSE IF Len(path.fragment) < 2
                 THEN DirStep(RC("rcPath", "rcIncorrect"), NULL, t.file, t.root, t.released, t.ops)
                 ELSE DirFragment(path, t, a)
         IN  Fragment(IF a.type = "kptDir" THEN DirOpened(path, a)
                      ELSE DirTyped(path, force_decrypt, a))

\* VFSManagerOpenDirectoryReadHttp ( self, dir, d, path, force_decrypt )
VFSManagerOpenDirectoryReadHttp(path, force_decrypt, a) ==
    LET Mounted(o) ==
            IF o.rc # rcOK THEN DirStep(o.rc, NULL, FALSE, FALSE, <<>>, o.ops)
            ELSE IF a.mount # rcOK
            THEN DirStep(a.mount, NULL, TRUE, FALSE, <<"file">>, o.ops \o <<"KQuickMountDirMake">>)
            ELSE LET Fragment(t) == IF t.rc = rcOK /\ Len(path.fragment) > 1
                                    THEN DirFragment(path, t, a) ELSE t
                     Released(t) == [t EXCEPT !.released = @ \o <<"file">>]
                 IN  Released(Fragment(FileToDirectory(path.path,
                         VFSManagerOpenFileReadDecryption(o.f, path, force_decrypt, ProbeOK), a)))
    IN  Mounted(VFSManagerOpenCurlFile(path, DirDispatch(a)))

\* VFSManagerOpenDirectoryReadDirectoryRelativeInt ( self, dir, d, path_,
\* force_decrypt ) with self and dir non-NULL
VFSManagerOpenDirectoryReadDirectoryRelativeInt(d_null, path, force_decrypt, a) ==
    IF d_null \/ path = NULL THEN DirStep(RC("rcParam", "rcNull"), NULL, FALSE, FALSE, <<>>, <<>>)
    ELSE CASE UriTypeOf(path) = "vpuri_not_supported" ->
                DirStep(RC("rcPath", "rcUnsupported"), NULL, FALSE, FALSE, <<>>, <<>>)
           [] UriTypeOf(path) = "vpuri_ncbi_acc" ->
                IF ~a.resolver
                THEN DirStep(RC("rcSRA", "rcUnsupported"), NULL, FALSE, FALSE, <<>>, <<>>)
                ELSE IF a.local # rcOK
                THEN DirStep(a.local, NULL, FALSE, FALSE, <<>>, <<"VResolverLocal">>)
                ELSE VFSManagerOpenDirectoryReadKfs(ResolvedLocal, force_decrypt, a)
           [] UriTypeOf(path) \in LocalUris ->
                VFSManagerOpenDirectoryReadKfs(path, force_decrypt, a)
           [] UriTypeOf(path) = "vpuri_ncbi_legrefseq" ->
                VFSManagerOpenDirectoryReadLegrefseq(path, force_decrypt, a)
           [] UriTypeOf(path) \in {"vpuri_http", "vpuri_ftp"} ->
                VFSManagerOpenDirectoryReadHttp(path, force_decrypt, a)
           [] OTHER -> DirStep(RC("rcPath", "rcInvalid"), NULL, FALSE, FALSE, <<>>, <<>>)

\* the answers of a directory open in which at most one collaborator fails:
\* after a failure no other collaborator is asked
DirFailures ==
    {DirOK} \cup { [DirOK EXCEPT ![k] = rcOther] :
                    k \in {"local", "rslv", "open", "mount", "ra", "read", "root", "sub"} }

DirEnvironments ==
    { [a EXCEPT !.type = t, !.sra = s, !.resolver = r] :
        a \in DirFailures, t \in Kpts, s \in BOOLEAN, r \in BOOLEAN }

DirTexts ==
    { <<"/", "a">>, <<"/", "a", "#", "d">>, <<"/", "a", "#">>, <<"f", "i", "l", "e", ":", "/", "a", "#", "d", "/", "e">>, <<"n", "c", "b", "i", "-", "f", "i", "l", "e", ":", "a", "#", "d">>, <<"x", "-", "n", "c", "b", "i", "-", "l", "e", "g", "r", "e", "f", "s", "e", "q", ":", "/", "a", "#", "d">>,
      <<"x", "-", "n", "c", "b", "i", "-", "l", "e", "g", "r", "e", "f", "s", "e", "q", ":", "/", "a", "#">>, <<"x", "-", "n", "c", "b", "i", "-", "l", "e", "g", "r", "e", "f", "s", "e", "q", ":", "/", "a">>, <<"x", "-", "n", "c", "b", "i", "-", "l", "e", "g", "r", "e", "f", "s", "e", "q", ":", "a", "#", "d", "/", "e">>,
      <<"n", "c", "b", "i", "-", "a", "c", "c", ":", "S", "R", "R", "0", "0", "1", "6", "5", "6">>, <<"h", "t", "t", "p", ":", "/", "/", "h", "/", "x", "#", "d">>, <<"f", "t", "p", ":", "/", "/", "h", "/", "x">>, <<"x", "-", "y", ":", "z">>, <<"/", "a", "?", "e", "n", "c", "#", "d">> }

InitDir == InitOf(DirTexts)

\* VFSManagerOpenDirectoryRead ( mgr, & d, made ) and
\* VFSManagerOpenDirectoryReadDecrypt ( mgr, & d, made )
OpenDirectoryRead ==
    /\ pc = "made"
    /\ \E d_null \in BOOLEAN, path \in PathArgs, force \in BOOLEAN, a \in DirEnvironments :
          res' = [called |-> TRUE, d_null |-> d_null, path |-> path, force |-> force, a |-> a,
                  refs |-> OpenDirectoryReadRefs(d_null, path, a),
                  ret |-> VFSManagerOpenDirectoryReadDirectoryRelativeInt(d_null, path, force, a)]
    /\ pc' = "opened"
    /\ UNCHANGED <<text, made, str, remade, read>>
    /\ UNCHANGED <<out, singleton, objs, thr>>

NextDir == MakePath \/ OpenDirectoryRead

SpecDir == InitDir /\ [][NextDir]_vars

\* how many times a call released a handle
Releases(name) == Cardinality({i \in DOMAIN res.ret.released : res.ret.released[i] = name})

\* a local archive was opened as a directory through a path whose fragment
\* is longer than "#"
ArchiveWithFragment ==
    /\ res.called
    /\ ~res.d_null /\ res.path # NULL
    /\ UriTypeOf(res.path) \in LocalUris \cup {"vpuri_ncbi_legrefseq"}
    /\ Len(res.path.fragment) > 1
    /\ res.ret.file /\ res.ret.root

\* C30: in the directory-open of a local archive whose Path carries a
\* fragment longer than '#', the returned directory is the subdirectory
\* named by the fragment bytes after '#', and the intermediate archive-root
\* handle and the opened file are each released exactly once, on success
\* and on failure of the subdirectory open
C30_FragmentSubdirectory ==
    ArchiveWithFragment =>
        /\ res.ret.rc = rcOK =>
              /\ res.ret.d # NULL
              /\ res.ret.d.sub = Tail(res.path.fragment)
              /\ res.ret.d.kind \in {"sra", "tar"}
        /\ res.ret.rc # rcOK => res.ret.d = NULL
        /\ Releases("root") = 1
        /\ Releases("file") = 1

\* the same, for the paths VFSManagerOpenDirectoryReadKfs opens
KfsFragmentReleases ==
    (ArchiveWithFragment /\ UriTypeOf(res.path) \in LocalUris) =>
        /\ res.ret.rc = rcOK => res.ret.d # NULL /\ res.ret.d.sub = Tail(res.path.fragment)
        /\ Releases("root") = 1
        /\ Releases("file") = 1


(***************************************************************************)
(* VFSManagerUpdateKryptoPassword: manager.c lines 2252 to 2608.  text is  *)
(* the configured path of the password file.  The call is followed step    *)
(* by step, each write and the rename being a step of its own, so that     *)
(* the content of the password file can be looked at between them.  res    *)
(* holds the two files (NULL: there is no such file) and the locals of     *)
(* the call.                                                               *)
(***************************************************************************)
\* VFS_KRYPTO_PASSWORD_MAX_SIZE (4096), scaled
MaxPassword == 2

NL == "\n"
CR == "\r"

\* a file of the directory: whether it is there, and its bytes
NoFile == [exists |-> FALSE, bytes |-> <<>>]
File(bytes) == [exists |-> TRUE, bytes |-> bytes]

\* what KFileWriteAll may answer: all bytes written, fewer bytes written
\* with rc 0, or an error
WriteOutcomes == {"all", "short", "failed"}

rcInsufficient == RC("rcFile", "rcInsufficient")

\* KFileWriteAll ( fnew, writ, bytes, size, & this_writ ): the file after it
\* and the count it reports; writ is always the size of the file here
KFileWriteAll(file, bytes, w) ==
    CASE w = "failed" -> [rc |-> rcOther, file |-> file, this_writ |-> 0]
      [] w = "short" -> [rc |-> rcOK, file |-> file \o SubSeq(bytes, 1, Len(bytes) - 1),
                         this_writ |-> Len(bytes) - 1]
      [] OTHER -> [rc |-> rcOK, file |-> file \o bytes, this_writ |-> Len(bytes)]

\* lines 2357-2364: the directory of the password file
PasswordDir(path) ==
    LET slashes == {i \in DOMAIN path : path[i] = "/"}
    IN  IF slashes = {} THEN <<".">>
        ELSE SubSeq(path, 1, (CHOOSE i \in slashes : \A j \in slashes : j <= i) - 1)

\* line 2588: access & 0027
ModeExcessive(access) == access % 8 # 0 \/ (access \div 16) % 2 = 1

\* lines 2261-2272: the checks of the arguments
UpdateArguments(self_null, password_null, password) ==
    IF self_null THEN RC("rcSelf", "rcNull")
    ELSE IF password_null THEN RC("rcParam", "rcNull")
    ELSE IF Len(password) = 0 THEN RC("rcParam", "rcNull")
    ELSE IF Len(password) > MaxPassword THEN RC("rcSize", "rcExcessive")
    ELSE IF \E i \in DOMAIN password : password[i] \in {NL, CR}
    THEN RC("rcEncryptionKey", "rcInvalid")
    ELSE rcOK

\* lines 2306-2335: the type of the configured path
UpdatePathType(ptype) ==
    CASE ptype \in {"kptNotFound", "kptFile"} -> rcOK
      [] ptype = "kptBadPath" -> RC("rcPath", "rcInvalid")
      [] OTHER -> RC("rcPath", "rcIncorrect")

\* lines 2261-2428: up to the creation of the temporary file
UpdateBegin(self_null, password_null, password, cfg, mk, open, create, ptype, path) ==
    IF UpdateArguments(self_null, password_null, password) # rcOK
    THEN UpdateArguments(self_null, password_null, password)
    ELSE IF cfg # rcOK THEN cfg
    ELSE IF UpdatePathType(ptype) # rcOK THEN UpdatePathType(ptype)
    ELSE LET Made(vold, vnew) ==
                 IF vold.rc # rcOK THEN vold.rc
                 ELSE IF vnew.rc # rcOK THEN vnew.rc
                 ELSE IF ptype = "kptFile" /\ open # rcOK THEN open
                 ELSE create
         IN  Made(VFSManagerVMakePath(path, FALSE, mk),
                  VFSManagerVMakePath(path \o <<".", "t", "m", "p">>, FALSE, mk))

PwPaths == { <<"p", "w">>, <<"/", "k", "/", "p", "w">>, <<"k", "/", "d", "/", "p", "w">> }

PwFiles ==
    {NoFile} \cup
    { File(bytes) : bytes \in
        { <<>>, <<"p", NL>>, <<"p", CR, "o">>, <<"o", NL>>, <<"p">>,
          <<"q", "r", NL, "o", NL, "x", NL, "y", NL>>,
          <<"o", "l", "d", NL, "e", "r", NL, "x", NL, "z">> } }

Passwords == { <<>>, <<"p">>, <<"q", "r">>, <<"p", NL>>, <<"a", "b", "c", "d">> }

\* the modes of the directory of the password file: 0700, 0750, 0755, 0770
PwModes == {448, 488, 493, 504}

PwStart(old, ptype, access) ==
    [called |-> FALSE, old |-> old, pwfile |-> old, tmp |-> NoFile, ptype |-> ptype,
     access |-> access, password |-> <<>>, dir |-> <<>>, nread |-> 0, do_rename |-> TRUE,
     rc |-> rcOK]

InitPw ==
    /\ text \in PwPaths
    /\ pc = "start"
    /\ made = NoPath
    /\ str = NoString
    /\ remade = NoPath
    /\ read = NoRead
    /\ out = NoOut
    /\ singleton = 0
    /\ objs = <<>>
    /\ thr = [t \in Threads |-> NoThread]
    /\ res \in { PwStart(old, ptype, access) :
                    old \in PwFiles, ptype \in {"kptFile", "kptNotFound", "kptDir", "kptBadPath"},
                    access \in PwModes }
    /\ res.ptype = "kptFile" <=> res.old.exists

\* lines 2252-2428: the arguments, the configured path, the two paths, the
\* old file opened and the temporary one created
UpdateKryptoPassword ==
    /\ pc = "start"
    /\ \E self_null \in BOOLEAN, password_null \in BOOLEAN, password \in Passwords :
       \E cfg \in Rc2, mk \in Rc2, open \in Rc2, create \in Rc2 :
          LET Begun(rc) ==
                  /\ res' = [res EXCEPT !.called = TRUE,
                                        !.password = IF password_null THEN <<>> ELSE password,
                                        !.dir = PasswordDir(text),
                                        !.tmp = IF rc = rcOK THEN File(<<>>) ELSE @,
                                        !.rc = rc]
                  /\ pc' = IF rc = rcOK THEN "writing" ELSE "returned"
          IN  Begun(UpdateBegin(self_null, password_null, password, cfg, mk, open, create, res.ptype, text))
    /\ UNCHANGED <<text, made, str, remade, read>>
    /\ UNCHANGED <<out, singleton, objs, thr>>

\* lines 2434-2481: the password and the newline are written
UpdateWritePassword ==
    /\ pc = "writing"
    /\ \E w1 \in WriteOutcomes, w2 \in WriteOutcomes :
          LET Newline(f) ==
                  LET Written(n) ==
                          IF n.rc # rcOK \/ n.this_writ # 1
                          THEN /\ res' = [res EXCEPT !.tmp = File(n.file),
                                             !.rc = IF n.rc # rcOK THEN n.rc ELSE rcInsufficient]
                               /\ pc' = "returned"
                          ELSE /\ res' = [res EXCEPT !.tmp = File(n.file)]
                               /\ pc' = IF res.ptype = "kptFile" THEN "copying" ELSE "closing"
                  IN  Written(KFileWriteAll(f, <<NL>>, w2))
              Password(p) ==
                  IF p.rc # rcOK \/ p.this_writ # Len(res.password)
                  THEN /\ res' = [res EXCEPT !.tmp = File(p.file),
                                     !.rc = IF p.rc # rcOK THEN p.rc ELSE rcInsufficient]
                       /\ pc' = "returned"
                  ELSE Newline(p.file)
          IN  Password(KFileWriteAll(res.tmp.bytes, res.password, w1))
    /\ UNCHANGED <<text, made, str, remade, read>>
    /\ UNCHANGED <<out, singleton, objs, thr>>

\* KFileReadAll ( fold, pos, buffer, sizeof buffer, & this_read )
PwChunk(pos) ==
    SubSeq(res.old.bytes, pos + 1,
           IF Len(res.old.bytes) < pos + MaxPassword + 4 THEN Len(res.old.bytes)
           ELSE pos + MaxPassword + 4)

\* lines 2498-2508: the old file begins with the new password
PwDuplicate(buffer) ==
    /\ Len(buffer) > Len(res.password)
    /\ buffer[Len(res.password) + 1] \in {NL, CR}
    /\ SubSeq(buffer, 1, Len(res.password)) = res.password

\* lines 2489-2516: the first buffer of the old file is read and written
UpdateCopyFirst ==
    /\ pc = "copying"
    /\ \E r \in Rc2, w \in WriteOutcomes :
          IF r # rcOK
          THEN res' = [res EXCEPT !.rc = r] /\ pc' = "returned"
          ELSE LET Written(n) ==
                       /\ res' = [res EXCEPT !.tmp = File(n.file), !.rc = n.rc,
                                             !.nread = Len(PwChunk(0)),
                                             !.do_rename = ~PwDuplicate(PwChunk(0))]
                       /\ pc' = IF n.rc # rcOK THEN "returned"
                                ELSE IF PwDuplicate(PwChunk(0)) THEN "closing"
                                ELSE "looping"
               IN  IF Len(PwChunk(0)) > 0
                   THEN Written(KFileWriteAll(res.tmp.bytes, PwChunk(0), w))
                   ELSE Written([rc |-> rcOK, file |-> res.tmp.bytes, this_writ |-> 1])
    /\ UNCHANGED <<text, made, str, remade, read>>
    /\ UNCHANGED <<out, singleton, objs, thr>>

\* lines 2518-2553: one turn of the loop that copies the rest
UpdateCopyMore ==
    /\ pc = "looping"
    /\ \E r \in Rc2, w \in WriteOutcomes :
          IF r # rcOK
          THEN res' = [res EXCEPT !.rc = r] /\ pc' = "returned"
          ELSE IF Len(PwChunk(res.nread)) = 0
          THEN res' = res /\ pc' = "closing"
          ELSE LET Written(n) ==
                       IF n.rc # rcOK \/ n.this_writ # Len(PwChunk(res.nread))
                       THEN /\ res' = [res EXCEPT !.tmp = File(n.file),
                                          !.rc = IF n.rc # rcOK THEN n.rc ELSE rcInsufficient]
                            /\ pc' = "returned"
                       ELSE /\ res' = [res EXCEPT !.tmp = File(n.file),
                                                  !.nread = @ + Len(PwChunk(res.nread))]
                            /\ pc' = "looping"
               IN  Written(KFileWriteAll(res.tmp.bytes, PwChunk(res.nread), w))
    /\ UNCHANGED <<text, made, str, remade, read>>
    /\ UNCHANGED <<out, singleton, objs, thr>>

\* lines 2556-2593: the files are released, the temporary file is renamed
\* to the password file or removed, and the mode of the directory is looked
\* at
UpdateRename ==
    /\ pc = "closing"
    /\ \E ren \in Rc2, removed \in BOOLEAN, acc \in Rc2 :
          LET Access(rc) ==
                  IF rc # rcOK THEN rc
                  ELSE IF acc # rcOK THEN acc
                  ELSE IF ModeExcessive(res.access) THEN RC("rcDirectory", "rcExcessive")
                  ELSE rcOK
          IN  IF res.do_rename
              THEN res' = [res EXCEPT !.pwfile = IF ren = rcOK THEN res.tmp ELSE @,
                                      !.tmp = IF ren = rcOK THEN NoFile ELSE @,
                                      !.rc = Access(ren)]
              ELSE res' = [res EXCEPT !.tmp = IF removed THEN NoFile ELSE @,
                                      !.rc = Access(rcOK)]
    /\ pc' = "returned"
    /\ UNCHANGED <<text, made, str, remade, read>>
    /\ UNCHANGED <<out, singleton, objs, thr>>

NextPw ==
    \/ UpdateKryptoPassword
    \/ UpdateWritePassword
    \/ UpdateCopyFirst
    \/ UpdateCopyMore
    \/ UpdateRename

SpecPw == InitPw /\ [][NextPw]_vars

\* the complete new content: the new password, a newline, the old content
PwNewContent == File(res.password \o <<NL>> \o res.old.bytes)

\* the bytes of a file before its first end of line
FirstLine(file) ==
    LET ends == {i \in DOMAIN file : file[i] \in {NL, CR}}
    IN  IF ends = {} THEN file
        ELSE SubSeq(file, 1, (CHOOSE i \in ends : \A j \in ends : i <= j) - 1)

\* C29: VFSManagerUpdateKryptoPassword is atomic with respect to the
\* password file: at every point the file holds either its complete old
\* content or the complete new content (new password, newline, old
\* content); on any error return the content is unchanged, and on success
\* the first line of the file is the new password
C29_AtomicUpdate ==
    res.called =>
        /\ res.pwfile \in {res.old, PwNewContent}
        /\ (pc = "returned" /\ res.rc # rcOK) => res.pwfile = res.old
        /\ (pc = "returned" /\ res.rc = rcOK) =>
              res.pwfile.exists /\ FirstLine(res.pwfile.bytes) = res.password

\* the password file holds something that is neither its old content nor
\* the complete new one
PwTorn == res.called /\ res.pwfile \notin {res.old, PwNewContent}

\* an error is returned after the password file was replaced
PwErrorAfterRename == pc = "returned" /\ res.rc # rcOK /\ res.pwfile # res.old


\* a read-open came to open the file of a local path
LocalAttempt ==
    /\ res.called
    /\ ~res.self_null /\ ~res.f_null /\ res.path # NULL
    /\ \/ res.op = "VFSManagerOpenFileReadDecrypt"
       \/ UriTypeOf(res.path) \in LocalUris
       \/ UriTypeOf(res.path) = "vpuri_ncbi_acc" /\ res.d.resolver /\ res.d.local = rcOK

\* the stream at the bottom of the one handed back
RawOf(f) == f.stack[Len(f.stack)]

\* the path is one of the three kinds of special path
SpecialPath(pbuff) ==
    \/ pbuff = S_dev_stdin
    \/ pbuff = S_dev_null
    \/ StartsWith(pbuff, S_dev_fd) /\ Numeric(SubSeq(pbuff, Len(S_dev_fd) + 1, Len(pbuff)))

\* the regular-file check was made and decided the open
RegularFileChecked ==
    /\ Did("KDirectoryResolvePath")
    /\ res.d.rslv = rcOK =>
          /\ Did("KDirectoryPathType")
          /\ res.d.type = "kptNotFound" => res.ret.rc = RC("rcFile", "rcNotFound")
          /\ res.d.type = "kptBadPath" => res.ret.rc = RC("rcFile", "rcInvalid")
          /\ res.d.type = "kptDir" => res.ret.rc = RC("rcFile", "rcIncorrect")
          /\ res.d.type # "kptFile" => res.ret.f = NULL /\ ~Did("KDirectoryOpenFileRead")
          /\ res.d.type = "kptFile" => Did("KDirectoryOpenFileRead")
    /\ res.ret.rc = rcOK => RawOf(res.ret.f) = "KSysFile"

\* C31: in a local read-open /dev/stdin yields the stdin reader, /dev/null
\* the null reader and /dev/fd/<N> (N all digits) descriptor N; every other
\* path, including any other name under /dev/ and /dev/fd/ followed by a
\* non-numeric suffix, goes through the regular-file check, which opens only
\* a regular file and returns (file, notFound) for a missing path,
\* (file, invalid) for a bad path and (file, incorrect) for a directory
C31_SpecialPaths ==
    LocalAttempt =>
        LET pbuff == VPathReadPathInt(LocalPath)
        IN  /\ pbuff = S_dev_stdin =>
                  /\ Did("KFileMakeStdIn") /\ ~Did("KDirectoryResolvePath")
                  /\ res.ret.rc = rcOK => RawOf(res.ret.f) = "stdin"
            /\ pbuff = S_dev_null =>
                  /\ Did("KFileMakeNullRead") /\ ~Did("KDirectoryResolvePath")
                  /\ res.ret.rc = rcOK => RawOf(res.ret.f) = "null"
            /\ (SpecialPath(pbuff) /\ pbuff \notin {S_dev_stdin, S_dev_null}) =>
                  /\ Did("KFileMakeFDFileRead") /\ ~Did("KDirectoryResolvePath")
                  /\ res.ret.rc = rcOK => RawOf(res.ret.f) = "fd"
            /\ ~SpecialPath(pbuff) => RegularFileChecked

\* the same for the paths that are not under /dev/ or are special
SpecialPathsButDev ==
    (LocalAttempt /\ (SpecialPath(VPathReadPathInt(LocalPath))
                      \/ ~StartsWith(VPathReadPathInt(LocalPath), S_dev))) => C31_SpecialPaths


\* a text was parsed and a path made from it
Parsed == pc # "start" /\ made.rc = rcOK /\ made.path # NULL

\* C32: in every successfully parsed Path the captured path field contains
\* none of the characters ':', '?' and '#'
C32_PathHasNoDelimiters ==
    Parsed => \A i \in DOMAIN made.path.path : made.path.path[i] \notin {":", "?", "#"}

\* C33: for every successfully parsed Path, query is empty or begins with
\* '?', and fragment is empty or begins with '#'
C33_QueryAndFragmentMarks ==
    Parsed =>
        /\ Len(made.path.query) = 0 \/ made.path.query[1] = "?"
        /\ Len(made.path.fragment) = 0 \/ made.path.fragment[1] = "#"

\* lines 2326-2338 of VPathReadUriInt: has_auth and has_host
HasAuth(self) == Len(VPathReadAuthInt(self, <<"/", "/">>)) > 2
HasHost(self) ==
    Len(VPathReadHostInt(self, IF HasAuth(self) THEN <<"@">> ELSE <<"/", "/">>))
        > (2 - (IF HasAuth(self) THEN 1 ELSE 0))

\* C34: for every successfully parsed Path, a Path with a non-empty auth has
\* a host, and a Path that has a host has a path that is empty or begins
\* with '/'
C34_AuthHostPath ==
    Parsed =>
        /\ Len(made.path.auth) # 0 => HasAuth(made.path) /\ HasHost(made.path)
        /\ HasAuth(made.path) => HasHost(made.path)
        /\ HasHost(made.path) => Len(made.path.path) = 0 \/ made.path.path[1] = "/"


\* a text with a query and a fragment was parsed
C33_Witness ==
    /\ Parsed
    /\ Len(made.path.query) > 1 /\ made.path.query[1] = "?"
    /\ Len(made.path.fragment) > 1 /\ made.path.fragment[1] = "#"

\* URLs with and without an auth, a host, a port and a path
AuthTexts ==
    { <<"a", ":", "/", "/">> \o au \o h \o pt \o pa :
        au \in {<<>>, <<"u", "@">>},
        h \in {<<>>, <<"h">>, <<"1", ".", "2", ".", "3", ".", "4">>, <<"[", "f", "f", "f", "f", "]">>},
        pt \in {<<>>, <<":">>, <<":", "8", "0">>},
        pa \in {<<>>, <<"/">>, <<"/", "x">>, <<"x">>} }

InitAuth == InitOf(AuthTexts)

SpecAuth == InitAuth /\ [][Next]_vars

\* the part of C34 about the path of a Path that has a host
HostThenSlash ==
    (Parsed /\ HasHost(made.path)) => Len(made.path.path) = 0 \/ made.path.path[1] = "/"


\* a call of VPathReadUri that succeeded reports the bytes it wrote
LengthIsBytesWritten(r) == r.rc = rcOK => r.num_read = Len(r.text)

\* C35: on success VPathReadUri reports a length equal to the number of
\* bytes it wrote, for every path_type a parse can produce, including
\* HostName and Endpoint Paths, for which no path text is appended; out.ret
\* is the call with the buffer chosen, out.full the call with a buffer of
\* BigBuffer bytes
C35_UriLengthIsBytesWritten ==
    (out.called /\ out.kind = "ReadUri") =>
        LengthIsBytesWritten(out.ret) /\ LengthIsBytesWritten(out.full)

\* the same for the Paths that have a path, an accession or an object id,
\* read into a buffer that holds the whole URI
UriLengthWithPath ==
    (out.called /\ out.kind = "ReadUri"
        /\ made.path.path_type \notin {"vpHostName", "vpEndpoint"}) =>
        LengthIsBytesWritten(out.full)

\* the same for a Path of a host, or a host and a port, and no path
HostOnlyUriLength ==
    (out.called /\ out.kind = "ReadUri"
        /\ made.path.path_type \in {"vpHostName", "vpEndpoint"}) =>
        LengthIsBytesWritten(out.full)

\* C36: VFSManagerOpenFileRead never changes the attributes of the Path it is
\* given and returns with the reference count of that Path equal to its value
\* at the call, for every scheme type and every outcome, with a resolver or
\* without one
C36_InputPathUntouched ==
    (res.called /\ res.op = "VFSManagerOpenFileRead") =>
        res.refs["path_"] = PathMade["path_"]

\* the same with the accession opened by a manager without a resolver left out
InputPathButAccession ==
    (res.called /\ res.op = "VFSManagerOpenFileRead"
        /\ ~(UriTypeOf(res.path) = "vpuri_ncbi_acc" /\ ~res.d.resolver)) =>
        res.refs["path_"] = PathMade["path_"]

\* the same for the directory opens
DirInputPathUntouched ==
    res.called => res.refs["path_"] = PathMade["path_"]

DirInputPathButAccession ==
    (res.called /\ ~(UriTypeOf(res.path) = "vpuri_ncbi_acc" /\ ~res.a.resolver)) =>
        res.refs["path_"] = PathMade["path_"]

\* every Path an accession was resolved to is released by the open
ResolvedPathReleased == res.called => res.refs["tpath"] = 0

\* a local read-open was made and its stream, if any, released by the caller
StagesAfterRelease == KFileRelease(res.stages.st, res.stages.f)

\* C37: once a read-open has returned and the caller has released the stream
\* it was given (or at once, if the open failed), every stage made or opened
\* during the call, the raw file, the buffer for a stream that cannot seek,
\* the decryption stage and the read-side buffer, has a reference count of
\* zero
C37_NoStageRetained ==
    res.called => \A s \in Stages : StagesAfterRelease.count[s] = 0

\* the same for the opens of a stream that can seek, or that are not probed
SeekableNoStageRetained ==
    (res.called /\ res.stages.st.under["buf64"] = "none") =>
        \A s \in Stages : StagesAfterRelease.count[s] = 0

\* the stage stored in * f is the outermost stage of the stream returned
StagesAgree ==
    (res.called /\ (res.ret.f = NULL \/ RawOf(res.ret.f) \notin {"KCurlFile"})) =>
        /\ res.stages.f = "none" <=> res.ret.f = NULL
        /\ res.stages.f = "buf256" <=> (res.ret.f # NULL /\ res.ret.f.stack[1] = "KBufFile(256M)")
        /\ res.stages.f = "buf64" <=> (res.ret.f # NULL /\ res.ret.f.stack[1] = "KBufFile(64K)")
        /\ res.stages.f = "raw" <=> (res.ret.f # NULL /\ Len(res.ret.f.stack) = 1)

\* a local read-open matched an envelope, obtained the key and returned a
\* stream
Decrypting ==
    /\ LocalOpen
    /\ res.p.magic \in {"aes", "wga"}
    /\ Did("GetEncryptionKey")
    /\ GetEncryptionKey(LocalPath, res.p.key).rc = rcOK
    /\ res.ret.rc = rcOK

\* the decryption stage of an envelope
DecryptionStage(magic) == IF magic = "aes" THEN "KEncFile" ELSE "KWGAEncFile"

\* C38: when the probe matches an encryption envelope of either format, AES
\* or WGA, and the key is obtained, the stream returned is a 256 MiB read-side
\* buffer above the decryption stage of that format, which wraps the raw
\* stream
C38_BufferAboveDecryption ==
    Decrypting =>
        /\ res.ret.f # NULL
        /\ Len(res.ret.f.stack) = 3
        /\ res.ret.f.stack[1] = "KBufFile(256M)"
        /\ res.ret.f.stack[2] = DecryptionStage(res.p.magic)

\* the same for the AES envelope on a stream that can seek
SeekableAESBuffered ==
    (Decrypting /\ res.p.magic = "aes" /\ res.p.ra = rcOK) =>
        /\ res.ret.f # NULL
        /\ Len(res.ret.f.stack) = 3
        /\ res.ret.f.stack[1] = "KBufFile(256M)"
        /\ res.ret.f.stack[2] = "KEncFile"

\* the WGA envelope is given back with a read-side buffer
WGABuffered ==
    (Decrypting /\ res.p.magic = "wga") => res.ret.f.stack[1] = "KBufFile(256M)"

\* the decryption stage of the AES envelope wraps the raw stream
AESWrapsRaw ==
    (Decrypting /\ res.p.magic = "aes") => Len(res.ret.f.stack) = 3

\* every stream returned for an envelope has the decryption stage of the
\* format on the stream the prefix was read from
DecryptionStageMade ==
    Decrypting => \E k \in DOMAIN res.ret.f.stack :
                     res.ret.f.stack[k] = DecryptionStage(res.p.magic)

\* VFSManagerOpenFileRead ( self, f, path ) as it would be with force_decrypt
\* set in its local open: the argument tests and the switch on the scheme of
\* lines 1162-1217, the local cases calling
\* VFSManagerOpenFileReadDirectoryRelativeInt ( ..., true, NULL )
OpenFileReadForced(self_null, f_null, path, d, p) ==
    IF f_null THEN Opened(RC("rcParam", "rcNull"), NULL, FALSE, <<>>)
    ELSE IF self_null THEN Opened(RC("rcSelf", "rcNull"), NULL, FALSE, <<>>)
    ELSE CASE UriTypeOf(path) = "vpuri_not_supported" ->
                Opened(RC("rcPath", "rcUnsupported"), NULL, FALSE, <<>>)
           [] UriTypeOf(path) = "vpuri_ncbi_acc" ->
                OpenAccession(TRUE, d, p)
           [] UriTypeOf(path) \in LocalUris ->
                VFSManagerOpenFileReadDirectoryRelativeInt(path, TRUE, d, p)
           [] UriTypeOf(path) = "vpuri_ncbi_legrefseq" ->
                Opened(RC("rcPath", "rcIncorrect"), NULL, FALSE, <<>>)
           [] UriTypeOf(path) \in {"vpuri_http", "vpuri_ftp"} -> VFSManagerOpenCurlFile(path, d)
           [] OTHER -> Opened(RC("rcPath", "rcInvalid"), NULL, FALSE, <<>>)

\* VFSManagerOpenFileReadDecrypt was called
DecryptCalled == res.called /\ res.op = "VFSManagerOpenFileReadDecrypt"

\* C39: VFSManagerOpenFileReadDecrypt behaves exactly like
\* VFSManagerOpenFileRead with force_decrypt set: for every Path the same
\* rejection of the invalid, not supported and legacy reference sequence
\* schemes, the same resolution of an accession, the same remote open for
\* http and ftp and the same argument tests, with the same result
C39_DecryptLikeOpenFileRead ==
    DecryptCalled =>
        res.ret = OpenFileReadForced(res.self_null, res.f_null, res.path, res.d, res.p)

\* the same for the Paths of a local scheme: no scheme, file, ncbi-file
DecryptLikeOpenFileReadLocal ==
    (DecryptCalled /\ UriTypeOf(res.path) \in LocalUris) =>
        res.ret = OpenFileReadForced(res.self_null, res.f_null, res.path, res.d, res.p)

\* VFSManagerOpenFileReadDecrypt rejects the schemes VFSManagerOpenFileRead
\* rejects
DecryptRejectsSchemes ==
    (DecryptCalled /\ ~res.f_null /\ res.path # NULL
        /\ UriTypeOf(res.path) \in {"vpuri_invalid", "vpuri_not_supported",
                                    "vpuri_ncbi_legrefseq"}) =>
        res.ret.ops = <<>> /\ res.ret.rc # rcOK

\* VFSManagerOpenFileReadDecrypt opens an http or ftp Path by the transport
DecryptOpensRemote ==
    (DecryptCalled /\ ~res.f_null /\ UriTypeOf(res.path) \in {"vpuri_http", "vpuri_ftp"}) =>
        Did("KCurlFileMake")

\* VFSManagerOpenFileReadDecrypt resolves an accession
DecryptResolvesAccession ==
    (DecryptCalled /\ ~res.f_null /\ UriTypeOf(res.path) = "vpuri_ncbi_acc"
        /\ res.d.resolver) => Did("VResolverLocal")
====
